---------------------------- MODULE Spec2Model ----------------------------
(***************************************************************************)
(* A model of the UIDAI biometric-update analysis toolkit                  *)
(* (src/scripts/data_cleaner.py, src/scripts/statistical_tests.py).        *)
(*                                                                         *)
(* The toolkit is a library of single-pass table transformations driven by *)
(* a caller.  The state is the caller's view of one call: the table it     *)
(* passed (before and after the call), the table it got back, the call's   *)
(* parameters and whether the call raised.  Each action is one library     *)
(* function, translated statement by statement.                            *)
(*                                                                         *)
(* A table is [cols |-> sequence of column names, rows |-> sequence of     *)
(* records column -> cell].  A cell is <<>> (missing, pandas NaN/None) or  *)
(* <<v>> (the value v).                                                    *)
(***************************************************************************)
EXTENDS Integers, Sequences, FiniteSets, TLC

VARIABLES
    pre,     \* the table the caller passed to the last call, as it was before the call
    arg,     \* that same table object after the call returned
    ret,     \* the table the last call returned (the caller threads it into the next call)
    call,    \* the last call: function name and parameters
    err,     \* TRUE when the last call raised to the caller
    stats,   \* the statistics dictionary of the last Tester call
    steps    \* number of calls made so far

vars == <<pre, arg, ret, call, err, stats, steps>>

-----------------------------------------------------------------------------
(* Bounds of the model *)

\* Largest number of records of an enumerated table.
MaxRows == 2
\* Ages from -1 to MaxAge are enumerated (the last bin edge is 120).
MaxAge == 121
\* Scores from -1 to MaxScore are enumerated (the last bin edge is 101).
MaxScore == 102
\* Calls the caller chains on one table.
MaxSteps == 2
\* Largest number of records of a table given to handle_missing_values.
MaxMissingRows == 3
\* Largest number of records of an enumerated table given to the anomaly detectors.
MaxAnomalyRows == 3

-----------------------------------------------------------------------------
(* Cells, rows and tables *)

NaN == <<>>
Val(v) == <<v>>
IsNull(c) == c = NaN
NotNull(c) == c # NaN
V(c) == c[1]

Range(s) == {s[i] : i \in DOMAIN s}

HasCol(t, c) == c \in Range(t.cols)
NRows(t) == Len(t.rows)
Column(t, c) == [i \in DOMAIN t.rows |-> t.rows[i][c]]

\* df[c] = series: replaces the column in place when present, appends it otherwise.
SetColumn(t, c, series) ==
    [cols |-> IF HasCol(t, c) THEN t.cols ELSE Append(t.cols, c),
     rows |-> [i \in DOMAIN t.rows |->
                 [k \in Range(t.cols) \cup {c} |->
                     IF k = c THEN series[i] ELSE t.rows[i][k]]]]

EmptyTable == [cols |-> <<>>, rows |-> <<>>]

-----------------------------------------------------------------------------
(* Object identity inside one call.  The function's local name df starts   *)
(* bound to the caller's object; df.copy() and every `df = <expr>` rebind  *)
(* it to a fresh object, while `df[c] = ...` and fillna(inplace=True)      *)
(* write into whatever object it is bound to.                              *)

Enter(t) == [caller |-> t, local |-> t, ref |-> "caller"]
Cur(h) == IF h.ref = "caller" THEN h.caller ELSE h.local
Rebind(h, t) == [h EXCEPT !.local = t, !.ref = "local"]
\* A write that reaches the caller's object whatever df is bound to.
InPlace_caller(h, t) == [h EXCEPT !.caller = t]

InPlace(h, t) == IF h.ref = "caller" THEN [h EXCEPT !.caller = t]
                 ELSE [h EXCEPT !.local = t]

\* A missing df.copy(): the local name keeps the caller's object.
DfCopy_alias(h) == h

\* df = df.copy()
DfCopy(h) == Rebind(h, Cur(h))

\* return df
Return(h) == [arg |-> h.caller, ret |-> Cur(h), err |-> FALSE]
\* an exception leaves the function: nothing is returned
Raise(h) == [arg |-> h.caller, ret |-> EmptyTable, err |-> TRUE]

-----------------------------------------------------------------------------
(* pandas.cut with explicit bin edges *)

\* numpy searchsorted(bins, x, side='right'): the number of edges <= x
SearchSortedRight(bins, x) == Cardinality({i \in DOMAIN bins : bins[i] <= x})
\* numpy searchsorted(bins, x, side='left'): the number of edges < x
SearchSortedLeft(bins, x) == Cardinality({i \in DOMAIN bins : bins[i] < x})

\* pd.cut called with right=True: bins are left-exclusive, right-inclusive.
Cut_rightclosed(c, bins, labels, include_lowest, right) ==
    IF IsNull(c) THEN NaN
    ELSE LET ids0 == SearchSortedLeft(bins, V(c))
             ids  == IF include_lowest /\ V(c) = bins[1] THEN 1 ELSE ids0
         IN IF ids = 0 \/ ids = Len(bins) THEN NaN ELSE Val(labels[ids])

\* pd.cut that clips a value outside the edges into the nearest bin.
Cut_clip(c, bins, labels, include_lowest, right) ==
    IF IsNull(c) THEN NaN
    ELSE LET ids == SearchSortedRight(bins, V(c))
         IN IF ids = 0 THEN Val(labels[1])
            ELSE IF ids = Len(bins) THEN Val(labels[Len(labels)])
            ELSE Val(labels[ids])

\* pd.cut(x, bins, labels, include_lowest, right) for one cell: the label of the bin
\* the value falls in, NaN for a missing value or a value outside the edges.
Cut(c, bins, labels, include_lowest, right) ==
    IF IsNull(c) THEN NaN
    ELSE LET ids0 == IF right THEN SearchSortedLeft(bins, V(c))
                     ELSE SearchSortedRight(bins, V(c))
             ids  == IF include_lowest /\ V(c) = bins[1] THEN 1 ELSE ids0
         IN IF ids = 0 \/ ids = Len(bins) THEN NaN ELSE Val(labels[ids])

-----------------------------------------------------------------------------
(* data_cleaner.create_age_groups *)

\* Edges read off the label names (0-5, 6-18, 19-40, 41-60, 60+).
AgeBins_fromnames == <<0, 5, 18, 40, 60, 120>>

AgeBins == <<0, 6, 19, 41, 61, 120>>
AgeLabels == <<"0-5 (Child)", "6-18 (Youth)", "19-40 (Young Adult)",
               "41-60 (Middle Age)", "60+ (Elderly)">>

create_age_groups(df, age_column, bins, labels, new_column_name) ==
    LET h == DfCopy(Enter(df))
    IN IF ~HasCol(Cur(h), age_column) THEN Return(h)
       ELSE Return(InPlace(h, SetColumn(Cur(h), new_column_name,
                [i \in DOMAIN Cur(h).rows |->
                    Cut(Cur(h).rows[i][age_column], bins, labels, TRUE, FALSE)])))

-----------------------------------------------------------------------------
(* data_cleaner.create_biometric_quality_categories *)

\* Edges read off the label names (0-40, 41-60, 61-80, 81-100).
QualityBins_fromnames == <<0, 40, 60, 80, 100>>

QualityBins == <<0, 41, 61, 81, 101>>
QualityLabels == <<"Poor (0-40)", "Fair (41-60)", "Good (61-80)", "Excellent (81-100)">>

create_biometric_quality_categories(df, quality_column, new_column_name) ==
    LET h == DfCopy(Enter(df))
    IN IF ~HasCol(Cur(h), quality_column) THEN Return(h)
       ELSE Return(InPlace(h, SetColumn(Cur(h), new_column_name,
                [i \in DOMAIN Cur(h).rows |->
                    Cut(Cur(h).rows[i][quality_column],
                        QualityBins, QualityLabels, TRUE, FALSE)])))

-----------------------------------------------------------------------------
(* The caller *)

NoCall == [fn |-> "load", strategy |-> "-", threshold |-> <<0, 1>>, features |-> <<>>]
NoStats == [total_records |-> 0, records_analyzed |-> 0, n_anomalies |-> 0,
            n_unusually_high |-> 0, n_unusually_low |-> 0]

\* The caller holds a freshly loaded table t.
Loaded(t) ==
    /\ pre = t /\ arg = t /\ ret = t
    /\ call = NoCall /\ err = FALSE /\ stats = NoStats /\ steps = 0

\* The caller passes its current table to a function and keeps what comes back.
Returned(r, c, s) ==
    /\ pre' = ret
    /\ arg' = r.arg
    /\ ret' = r.ret
    /\ err' = r.err
    /\ call' = c
    /\ stats' = s
    /\ steps' = steps + 1

CanCall == steps < MaxSteps /\ ~err

-----------------------------------------------------------------------------
(* Bucketing: tables with an Age and a Biometric_Quality_Score column *)

Cells(S) == {NaN} \cup {Val(v) : v \in S}
Row2(a, q) == [Age |-> a, Biometric_Quality_Score |-> q]
AgeScoreCols == <<"Age", "Biometric_Quality_Score">>

\* Sequences over S of length 0..n
SeqUpTo(S, n) == UNION {[1..k -> S] : k \in 0..n}

\* The spec's two worked examples (section 8).
ExampleAges == <<3, 10, 25, 45, 65>>
ExampleScores == <<35, 55, 75, 95>>
ExampleAgeTable ==
    [cols |-> AgeScoreCols,
     rows |-> [i \in 1..5 |-> Row2(Val(ExampleAges[i]), Val(50))]]
ExampleScoreTable ==
    [cols |-> AgeScoreCols,
     rows |-> [i \in 1..4 |-> Row2(Val(30), Val(ExampleScores[i]))]]

BucketTables ==
    \* every age against a few scores, and every score against a few ages
    {[cols |-> AgeScoreCols, rows |-> <<Row2(a, q)>>] :
        a \in Cells(-1..MaxAge), q \in Cells({40, 41})}
    \cup {[cols |-> AgeScoreCols, rows |-> <<Row2(a, q)>>] :
        a \in Cells({5, 6}), q \in Cells(-1..MaxScore)}
    \* small tables mixing in-range, boundary, out-of-range and missing values
    \cup {[cols |-> AgeScoreCols, rows |-> rs] :
        rs \in SeqUpTo({Row2(a, q) : a \in Cells({6, 120}), q \in Cells({40, 101})},
                       MaxRows)}
    \cup {ExampleAgeTable, ExampleScoreTable}

InitBucket == \E t \in BucketTables : Loaded(t)

CreateAgeGroups ==
    /\ CanCall
    /\ Returned(create_age_groups(ret, "Age", AgeBins, AgeLabels, "Age_Group"),
                [NoCall EXCEPT !.fn = "create_age_groups"], NoStats)

CreateBiometricQualityCategories ==
    /\ CanCall
    /\ Returned(create_biometric_quality_categories(ret, "Biometric_Quality_Score",
                                                    "Quality_Category"),
                [NoCall EXCEPT !.fn = "create_biometric_quality_categories"], NoStats)

NextBucket == CreateAgeGroups \/ CreateBiometricQualityCategories

SpecBucket == InitBucket /\ [][NextBucket]_vars

-----------------------------------------------------------------------------
(* Column types.  The record table has a fixed schema: select_dtypes sees   *)
(* Age and Biometric_Quality_Score as numbers, State as text (object), the *)
(* two derived bucket columns as pandas categoricals and the date columns  *)
(* (after convert_date_columns) as datetimes.                              *)

DType(c) ==
    IF c \in {"Age", "Biometric_Quality_Score", "group_mean", "group_std", "z_score",
              "Anomaly", "Anomaly_Score"} THEN "number"
    ELSE IF c \in {"Age_Group", "Quality_Category"} THEN "category"
    ELSE IF c = "is_anomaly" THEN "bool"
    ELSE IF c \in {"Enrolment_Date", "Update_Date"} THEN "datetime"
    ELSE "object"

\* Ascending order of the values of a column (Series.mode() returns its ties
\* sorted): text in string order, the labels of a categorical in bin order.
TextOrder ==
    <<" mh ", "KA", "Ka", "MH", "Mh", "UNKNOWN", "Unknown", "ka", "mh", "unknown">>
    \o AgeLabels \o QualityLabels
Rank(v) == CHOOSE k \in DOMAIN TextOrder : TextOrder[k] = v
Less(c, a, b) == IF DType(c) = "number" THEN a < b ELSE Rank(a) < Rank(b)

-----------------------------------------------------------------------------
(* data_cleaner.handle_missing_values *)

\* df[c].isnull().sum()
MissingCount(t, c) == Cardinality({i \in DOMAIN t.rows : IsNull(t.rows[i][c])})

\* round(n/d) to the nearest integer, ties to even (numpy round)
RoundHalfEven(n, d) ==
    LET q == n \div d
        r == n % d
    IN IF 2 * r < d THEN q
       ELSE IF 2 * r > d THEN q + 1
       ELSE IF q % 2 = 0 THEN q ELSE q + 1

\* (count / len(df) * 100).round(2), in hundredths of a percent
MissingPercent(t, c) == RoundHalfEven(MissingCount(t, c) * 100 * 100, NRows(t))

\* missing_stats[missing_stats['Missing_Count'] > 0]['Column']
MissingStats(t) == SelectSeq(t.cols, LAMBDA c : MissingCount(t, c) > 0)

\* dropna(how='all'): only the rows without any present value are dropped.
DropNa_all(t) ==
    [cols |-> t.cols,
     rows |-> SelectSeq(t.rows, LAMBDA r : \E c \in Range(t.cols) : NotNull(r[c]))]

\* df.dropna(): the rows without any missing value, in order
DropNa(t) ==
    [cols |-> t.cols,
     rows |-> SelectSeq(t.rows, LAMBDA r : \A c \in Range(t.cols) : NotNull(r[c]))]

\* df.drop(columns=drop)
DropColumns(t, drop) ==
    LET keep == SelectSeq(t.cols, LAMBDA c : c \notin drop)
    IN [cols |-> keep,
        rows |-> [i \in DOMAIN t.rows |-> [c \in Range(keep) |-> t.rows[i][c]]]]

\* missing_stats['Missing_Percent'] > threshold*100, the threshold a fraction
\* <<numerator, denominator>>
ExceedsThreshold(t, c, threshold) ==
    MissingPercent(t, c) * threshold[2] > threshold[1] * 100 * 100

\* The present values of column c
Present(t, c) == {i \in DOMAIN t.rows : NotNull(t.rows[i][c])}

\* df[c].mode(): the most frequent present values, ascending; <<>> when all missing
Count(t, c, v) == Cardinality({i \in Present(t, c) : V(t.rows[i][c]) = v})
Modes(t, c) ==
    {V(t.rows[i][c]) : i \in {i \in Present(t, c) :
        \A j \in Present(t, c) : Count(t, c, V(t.rows[j][c])) <= Count(t, c, V(t.rows[i][c]))}}
Min(c, S) == CHOOSE v \in S : \A w \in S : v = w \/ Less(c, v, w)

\* df[c].median(): the middle present value, the mean of the two middle ones when
\* their number is even; NaN when all are missing.  The enumerated values are even,
\* so that the mean of two of them is an integer.
NthSmallest(t, c, n) ==
    V(t.rows[CHOOSE i \in Present(t, c) :
        Cardinality({j \in Present(t, c) :
            \/ V(t.rows[j][c]) < V(t.rows[i][c])
            \/ (V(t.rows[j][c]) = V(t.rows[i][c]) /\ j < i)}) = n - 1][c])
Median(t, c) ==
    LET n == Cardinality(Present(t, c))
    IN IF n = 0 THEN NaN
       ELSE IF n % 2 = 1 THEN Val(NthSmallest(t, c, (n + 1) \div 2))
       ELSE Val((NthSmallest(t, c, n \div 2) + NthSmallest(t, c, n \div 2 + 1)) \div 2)

\* A fill that overwrites the whole column with the value.
FillNa_all(t, c, value) ==
    [t EXCEPT !.rows = [i \in DOMAIN t.rows |-> [t.rows[i] EXCEPT ![c] = value]]]

\* df[c].fillna(value, inplace=True), the write reaching the table df[c] was taken
\* from; filling with NaN changes nothing
FillNa(t, c, value) ==
    [t EXCEPT !.rows = [i \in DOMAIN t.rows |->
        [t.rows[i] EXCEPT ![c] = IF IsNull(@) THEN value ELSE @]]]

\* for col in df.select_dtypes(include=kinds).columns: fill the column in place.
\* Filling a categorical column that has no present value with 'Unknown' raises
\* (the value is not one of its categories).
RECURSIVE FillLoop(_, _, _)
FillLoop(h, cols, strategy) ==
    IF cols = <<>> THEN Return(h)
    ELSE LET c == Head(cols)
             t == Cur(h)
         IN IF MissingCount(t, c) = 0 THEN FillLoop(h, Tail(cols), strategy)
            ELSE IF strategy = "fill_median"
                 THEN FillLoop(InPlace(h, FillNa(t, c, Median(t, c))), Tail(cols), strategy)
            ELSE IF Modes(t, c) # {}
                 THEN FillLoop(InPlace(h, FillNa(t, c, Val(Min(c, Modes(t, c))))),
                               Tail(cols), strategy)
            ELSE IF DType(c) = "category" THEN Raise(h)
            ELSE FillLoop(InPlace(h, FillNa(t, c, Val("Unknown"))), Tail(cols), strategy)

\* A 'report' branch that falls through to dropping the incomplete rows.
ApplyStrategy_reportdrops(h, strategy, threshold) ==
    IF strategy = "report" THEN Return(Rebind(h, DropNa(Cur(h)))) ELSE Return(h)

\* The strategy branches (lines 152-185), reached when some column has a missing value
ApplyStrategy(h, strategy, threshold) ==
    LET t == Cur(h)
    IN IF strategy = "report" THEN Return(h)
       ELSE IF strategy = "drop_rows" THEN Return(Rebind(h, DropNa(t)))
       ELSE IF strategy = "drop_cols"
            THEN LET cols_to_drop ==
                        SelectSeq(MissingStats(t), LAMBDA c : ExceedsThreshold(t, c, threshold))
                 IN IF cols_to_drop # <<>>
                    THEN Return(Rebind(h, DropColumns(t, Range(cols_to_drop))))
                    ELSE Return(h)
       ELSE IF strategy = "fill_mode"
            THEN FillLoop(h, SelectSeq(t.cols, LAMBDA c : DType(c) \in {"object", "category"}),
                          strategy)
       ELSE IF strategy = "fill_median"
            THEN FillLoop(h, SelectSeq(t.cols, LAMBDA c : DType(c) = "number"), strategy)
       ELSE Return(h)

handle_missing_values(df, strategy, threshold) ==
    LET h == DfCopy(Enter(df))
    IN IF MissingStats(Cur(h)) = <<>> THEN Return(h)
       ELSE ApplyStrategy(h, strategy, threshold)

-----------------------------------------------------------------------------
(* Missing values: tables with a numeric Age and a text State column *)

Strategies == {"report", "drop_rows", "drop_cols", "fill_mode", "fill_median"}
\* threshold as a fraction <<numerator, denominator>>: 0, 0.3333, 0.5, 1
Thresholds == {<<0, 1>>, <<3333, 10000>>, <<1, 2>>, <<1, 1>>}
DefaultThreshold == <<1, 2>>

MissingTables ==
    {[cols |-> <<"Age", "State">>, rows |-> rs] :
        rs \in SeqUpTo({[Age |-> a, State |-> s] :
                            a \in Cells({20, 40}), s \in Cells({"KA", "MH"})},
                       MaxMissingRows)}

InitMissing == \E t \in MissingTables : Loaded(t)

HandleMissingValues ==
    /\ steps = 0
    /\ \E strategy \in Strategies :
       \E threshold \in IF strategy = "drop_cols" THEN Thresholds ELSE {DefaultThreshold} :
          Returned(handle_missing_values(ret, strategy, threshold),
                   [NoCall EXCEPT !.fn = "handle_missing_values",
                                  !.strategy = strategy, !.threshold = threshold],
                   NoStats)

NextMissing == HandleMissingValues

SpecMissing == InitMissing /\ [][NextMissing]_vars

-----------------------------------------------------------------------------
(* statistical_tests.detect_age_quality_anomalies                           *)
(*                                                                         *)
(* Floating-point quantities are kept exact.  A mean is the fraction       *)
(* <<a, b>> = a/b; a standard deviation is <<p, r>> = sqrt(p/r); a z-score *)
(* is [s, num, den] = s * sqrt(num/den) with s its sign; a threshold is    *)
(* the fraction <<n, d>>, d > 0.                                           *)

RECURSIVE SumOver(_, _)
SumOver(f, S) ==
    IF S = {} THEN 0
    ELSE LET i == CHOOSE i \in S : TRUE IN f[i] + SumOver(f, S \ {i})

\* The rows of group key with a present value of column q
GroupRows(t, g, key, q) ==
    {i \in DOMAIN t.rows : t.rows[i][g] = Val(key) /\ NotNull(t.rows[i][q])}

\* groupby(g)[q].mean(): NaN for a group without a present value
GroupMean(t, g, key, q) ==
    LET S == GroupRows(t, g, key, q)
    IN IF S = {} THEN NaN
       ELSE Val(<<SumOver([i \in S |-> V(t.rows[i][q])], S), Cardinality(S)>>)

\* groupby(g)[q].std(): the sample standard deviation (ddof=1), NaN for fewer than
\* two present values.  The variance is (n*sum(x^2) - sum(x)^2) / (n*(n-1)).
GroupStd(t, g, key, q) ==
    LET S == GroupRows(t, g, key, q)
        n == Cardinality(S)
        sum == SumOver([i \in S |-> V(t.rows[i][q])], S)
        sumsq == SumOver([i \in S |-> V(t.rows[i][q]) * V(t.rows[i][q])], S)
    IN IF n < 2 THEN NaN ELSE Val(<<n * sumsq - sum * sum, n * (n - 1)>>)

\* df.merge(group_stats, on=g): an inner join.  groupby drops the missing keys, so
\* a record without a group finds no partner and is left out; the others keep
\* their order and gain group_mean and group_std.
Merge(t, g, q) ==
    LET kept == SelectSeq(t.rows, LAMBDA r : NotNull(r[g]))
    IN [cols |-> t.cols \o <<"group_mean", "group_std">>,
        rows |-> [i \in DOMAIN kept |->
                    [c \in Range(t.cols) \cup {"group_mean", "group_std"} |->
                        IF c = "group_mean" THEN GroupMean(t, g, V(kept[i][g]), q)
                        ELSE IF c = "group_std" THEN GroupStd(t, g, V(kept[i][g]), q)
                        ELSE kept[i][c]]]]

Sign(x) == IF x > 0 THEN 1 ELSE IF x < 0 THEN -1 ELSE 0

\* (x - group_mean) / group_std: NaN when an operand is missing and for 0/0
ZScore(x, mean, std) ==
    IF IsNull(x) \/ IsNull(mean) \/ IsNull(std) THEN NaN
    ELSE LET diff == V(x) * V(mean)[2] - V(mean)[1]      \* (x - mean) * b
         IN IF diff = 0 /\ V(std)[1] = 0 THEN NaN
            ELSE Val([s   |-> Sign(diff),
                      num |-> diff * diff * V(std)[2],
                      den |-> V(mean)[2] * V(mean)[2] * V(std)[1]])

\* z > t for a z-score cell and a threshold fraction; FALSE for NaN
ZGreater(z, t) ==
    /\ NotNull(z)
    /\ IF t[1] >= 0
       THEN V(z).s = 1 /\ V(z).num * t[2] * t[2] > t[1] * t[1] * V(z).den
       ELSE V(z).s >= 0 \/ V(z).num * t[2] * t[2] < t[1] * t[1] * V(z).den

\* z < t for a z-score cell and a threshold fraction; FALSE for NaN
ZLess(z, t) ==
    /\ NotNull(z)
    /\ IF t[1] <= 0
       THEN V(z).s = -1 /\ V(z).num * t[2] * t[2] > t[1] * t[1] * V(z).den
       ELSE V(z).s <= 0 \/ V(z).num * t[2] * t[2] < t[1] * t[1] * V(z).den

\* A flag computed as "not within the threshold": NaN is not within it.
AbsGreater_notwithin(z, t) ==
    IsNull(z) \/ V(z).num * t[2] * t[2] > t[1] * t[1] * V(z).den

\* np.abs(z) > t; FALSE for NaN
AbsGreater(z, t) ==
    /\ NotNull(z)
    /\ (t[1] < 0 \/ V(z).num * t[2] * t[2] > t[1] * t[1] * V(z).den)

Neg(t) == <<-t[1], t[2]>>

\* A high-quality test that is not strict.
IsHigh_ge(z, t) == NotNull(z) /\ ~ZLess(z, t)

\* df_merged['z_score'] > threshold_std
IsHigh(z, t) == ZGreater(z, t)

\* A low-quality test against the threshold itself instead of its negation.
IsLow_unsigned(z, t) == ZLess(z, t)

\* df_merged['z_score'] < -threshold_std
IsLow(z, t) == ZLess(z, Neg(t))

AnomalyStats(t) ==
    [NoStats EXCEPT
        !.total_records = NRows(t),
        !.n_anomalies = Cardinality({i \in DOMAIN t.rows : V(t.rows[i]["is_anomaly"])}),
        !.n_unusually_high = Cardinality({i \in DOMAIN t.rows :
            t.rows[i]["anomaly_type"] = Val("Unusually High Quality")}),
        !.n_unusually_low = Cardinality({i \in DOMAIN t.rows :
            t.rows[i]["anomaly_type"] = Val("Unusually Low Quality")})]

\* Lines 500-506 for one record of df_merged: z_score, is_anomaly, then anomaly_type
\* set to 'Normal' and overwritten where z > threshold and where z < -threshold.
FlagRow(r, cols, quality_column, threshold_std) ==
    LET z == ZScore(r[quality_column], r["group_mean"], r["group_std"])
    IN [c \in Range(cols) \cup {"z_score", "is_anomaly", "anomaly_type"} |->
          IF c = "z_score" THEN z
          ELSE IF c = "is_anomaly" THEN Val(AbsGreater(z, threshold_std))
          ELSE IF c = "anomaly_type"
               THEN IF IsLow(z, threshold_std) THEN Val("Unusually Low Quality")
                    ELSE IF IsHigh(z, threshold_std) THEN Val("Unusually High Quality")
                    ELSE Val("Normal")
          ELSE r[c]]

\* df_merged with its three new columns written
Flagged(m, quality_column, threshold_std) ==
    [cols |-> m.cols \o <<"z_score", "is_anomaly", "anomaly_type">>,
     rows |-> [i \in DOMAIN m.rows |->
                 FlagRow(m.rows[i], m.cols, quality_column, threshold_std)]]

\* A missing column makes df.groupby / df[...] raise KeyError.  Otherwise the merge
\* creates a new table, df_merged, and the new columns are written into it.
detect_age_quality_anomalies(df, age_group_column, quality_column, threshold_std) ==
    IF ~HasCol(df, age_group_column) \/ ~HasCol(df, quality_column)
    THEN [Raise(Enter(df)) EXCEPT !.ret = [tbl |-> EmptyTable, stats |-> NoStats]]
    ELSE LET out == Flagged(Merge(df, age_group_column, quality_column),
                            quality_column, threshold_std)
         IN [Return(Rebind(Enter(df), out)) EXCEPT
                !.ret = [tbl |-> out, stats |-> AnomalyStats(out)]]

-----------------------------------------------------------------------------
(* Anomaly detection: tables with an Age_Group and a score column *)

\* threshold_std as a fraction: 0, 0.5, 1, 2 (the default), 3, 4
ThresholdStds == {<<0, 1>>, <<1, 2>>, <<1, 1>>, <<2, 1>>, <<3, 1>>, <<4, 1>>}

GroupScoreRow(g, q) == [Age_Group |-> g, Biometric_Quality_Score |-> q]

\* The spec's synthetic record set: one group with mean 50 and standard deviation 5
\* (65, five times 49, five times 48) whose record 65 has z = (65 - 50) / 5 = 3.
ZExampleScores == <<65, 49, 49, 49, 49, 49, 48, 48, 48, 48, 48>>
ZExampleTable ==
    [cols |-> <<"Age_Group", "Biometric_Quality_Score">>,
     rows |-> [i \in DOMAIN ZExampleScores |->
                 GroupScoreRow(Val("60+ (Elderly)"), Val(ZExampleScores[i]))]]

AnomalyTables ==
    {[cols |-> <<"Age_Group", "Biometric_Quality_Score">>, rows |-> rs] :
        rs \in SeqUpTo({GroupScoreRow(g, q) :
                            g \in Cells({"0-5 (Child)", "6-18 (Youth)"}),
                            q \in Cells({40, 50, 90})},
                       MaxAnomalyRows)}

InitAnomaly ==
    \/ \E t \in AnomalyTables : Loaded(t)
    \/ Loaded(ZExampleTable)

DetectAgeQualityAnomalies ==
    /\ steps = 0
    /\ \E threshold_std \in ThresholdStds :
         LET r == detect_age_quality_anomalies(ret, "Age_Group", "Biometric_Quality_Score",
                                               threshold_std)
         IN Returned([r EXCEPT !.ret = r.ret.tbl],
                     [NoCall EXCEPT !.fn = "detect_age_quality_anomalies",
                                    !.threshold = threshold_std],
                     r.ret.stats)

NextAnomaly == DetectAgeQualityAnomalies

SpecAnomaly == InitAnomaly /\ [][NextAnomaly]_vars

-----------------------------------------------------------------------------
(* statistical_tests.isolation_forest_anomaly_detection *)

\* available_features = [f for f in features if f in df.columns]
AvailableFeatures(df, features) == SelectSeq(features, LAMBDA f : HasCol(df, f))

\* pd.Categorical(X[col]).codes for a text column: the rank of the value among the
\* sorted distinct present values, and -1 for a missing value.  Other columns are
\* left as they are.
Encoded(df, f, cell) ==
    IF DType(f) # "object" THEN cell
    ELSE IF IsNull(cell) THEN Val(-1)
    ELSE Val(Cardinality({w \in {V(df.rows[j][f]) : j \in Present(df, f)} :
                              Less(f, w, V(cell))}))

\* X_clean = X.dropna(): the index of the rows of the encoded feature matrix that
\* hold no missing value
XClean(df, feats) ==
    {i \in DOMAIN df.rows :
        \A f \in Range(feats) : NotNull(Encoded(df, f, df.rows[i][f]))}

\* StandardScaler.fit_transform raises on an empty matrix and on a column of
\* labels (a pandas categorical is not encoded: its dtype is not 'object').
ScalerRaises(df, feats) ==
    \/ XClean(df, feats) = {}
    \/ \E f \in Range(feats) : DType(f) = "category"

\* The anomaly score the forest gives a record it predicts as p, in hundredths:
\* the prediction is -1 exactly when the score lies below the fitted offset.
ScoreOf(p) == IF p = -1 THEN Val(-65) ELSE Val(-45)

\* df_result: a copy of df with Anomaly = 0, then the predictions and the scores
\* written at the index of X_clean; Anomaly_Score stays missing elsewhere.
IsoResult(df, clean, predictions) ==
    [cols |-> df.cols \o <<"Anomaly", "Anomaly_Score">>,
     rows |-> [i \in DOMAIN df.rows |->
                 [c \in Range(df.cols) \cup {"Anomaly", "Anomaly_Score"} |->
                     IF c = "Anomaly"
                     THEN IF i \in clean THEN Val(predictions[i]) ELSE Val(0)
                     ELSE IF c = "Anomaly_Score"
                     THEN IF i \in clean THEN ScoreOf(predictions[i]) ELSE NaN
                     ELSE df.rows[i][c]]]]

IsoStats(df, clean, predictions) ==
    [NoStats EXCEPT
        !.total_records = NRows(df),
        !.records_analyzed = Cardinality(clean),
        !.n_anomalies = Cardinality({i \in clean : predictions[i] = -1})]

\* predictions is what IsolationForest.fit_predict returns for the rows of X_clean.
\* Without any available feature the function returns the caller's table itself.
isolation_forest_anomaly_detection(df, features, predictions) ==
    LET h == Enter(df)
        feats == AvailableFeatures(df, features)
        clean == XClean(df, feats)
    IN IF feats = <<>>
       THEN [Return(h) EXCEPT !.ret = [tbl |-> Cur(h), stats |-> NoStats]]
       ELSE IF ScalerRaises(df, feats)
       THEN [Raise(h) EXCEPT !.ret = [tbl |-> EmptyTable, stats |-> NoStats]]
       ELSE [Return(Rebind(h, IsoResult(df, clean, predictions))) EXCEPT
                !.ret = [tbl |-> IsoResult(df, clean, predictions),
                         stats |-> IsoStats(df, clean, predictions)]]

-----------------------------------------------------------------------------
(* Isolation forest: tables with a numeric Age and a text State column *)

FeatureLists == {<<"Age">>, <<"State">>, <<"Age", "State">>, <<"Gender">>}

IsoTables ==
    {[cols |-> <<"Age", "State">>, rows |-> rs] :
        rs \in SeqUpTo({[Age |-> a, State |-> s] :
                            a \in Cells({20}), s \in Cells({"KA", "MH"})},
                       MaxAnomalyRows)}

InitIso == \E t \in IsoTables : Loaded(t)

IsolationForestAnomalyDetection ==
    /\ steps = 0
    /\ \E features \in FeatureLists :
       \E predictions \in [XClean(ret, AvailableFeatures(ret, features)) -> {-1, 1}] :
         LET r == isolation_forest_anomaly_detection(ret, features, predictions)
         IN Returned([r EXCEPT !.ret = r.ret.tbl],
                     [NoCall EXCEPT !.fn = "isolation_forest_anomaly_detection",
                                    !.features = features],
                     r.ret.stats)

NextIso == IsolationForestAnomalyDetection

SpecIso == InitIso /\ [][NextIso]_vars

-----------------------------------------------------------------------------
(* data_loader: the reader is chosen by the extension of the file's name.   *)
(* A path is a sequence of one-character strings.                           *)

\* str.lower() on one character
LowerChar_asis(c) == c

LowerChar(c) ==
    CASE c = "C" -> "c" [] c = "S" -> "s" [] c = "V" -> "v"
      [] c = "X" -> "x" [] c = "L" -> "l" [] c = "T" -> "t"
      [] c = "D" -> "d" [] OTHER -> c

\* str.lower()
Lower(s) == [i \in 1..Len(s) |-> LowerChar(s[i])]

\* str.rfind(ch), 1-based: 0 when ch does not occur
RFind(s, ch) ==
    LET at == {i \in 1..Len(s) : s[i] = ch}
    IN IF at = {} THEN 0 ELSE CHOOSE i \in at : \A j \in at : j <= i

\* PurePath.name: the last component of the path
Name(path) == SubSeq(path, RFind(path, "/") + 1, Len(path))

\* PurePath.suffix: from the last dot of the name on, unless that dot leads
\* or ends the name
Suffix(path) ==
    LET name == Name(path)
        i == RFind(name, ".")
    IN IF 1 < i /\ i < Len(name) THEN SubSeq(name, i, Len(name)) ELSE <<>>

DotCsv == <<".", "c", "s", "v">>
DotXlsx == <<".", "x", "l", "s", "x">>
DotXls == <<".", "x", "l", "s">>

\* the if / elif / else on file_path.suffix.lower()
Reader(file_path) ==
    IF Lower(Suffix(file_path)) = DotCsv THEN "read_csv"
    ELSE IF Lower(Suffix(file_path)) \in {DotXlsx, DotXls} THEN "read_excel"
    ELSE "none"

\* Both loaders: the reader either yields the file's table or fails
\* (readable = FALSE); an unsupported suffix raises ValueError.
load_enrolment_data(file_path, content, readable) ==
    IF Reader(file_path) = "none" \/ ~readable
    THEN [ret |-> EmptyTable, err |-> TRUE]
    ELSE [ret |-> content, err |-> FALSE]

load_update_data(file_path, content, readable) ==
    IF Reader(file_path) = "none" \/ ~readable
    THEN [ret |-> EmptyTable, err |-> TRUE]
    ELSE [ret |-> content, err |-> FALSE]

FileDirs == {<<>>, <<"a", ".", "c", "s", "v", "/">>}
FileStems == {<<>>, <<"d">>, <<"d", ".", "x", "l", "s">>, <<".">>}
FileExts ==
    {<<>>, <<".">>, <<"c", "s", "v">>, <<".", "t", "x", "t">>,
     <<".", "c", "s">>, <<".", "c", "s", "v", "x">>,
     <<".", "c", "s", "v">>, <<".", "C", "S", "V">>, <<".", "C", "s", "v">>,
     <<".", "x", "l", "s", "x">>, <<".", "X", "L", "S", "X">>,
     <<".", "x", "l", "s">>, <<".", "X", "l", "s">>,
     <<".", "c", "s", "v", ".">>}
FilePaths ==
    {p \in {d \o s \o x : d \in FileDirs, s \in FileStems, x \in FileExts} :
        p # <<>> /\ p[Len(p)] # "/"}
FileContents == {ExampleAgeTable, ExampleScoreTable}

LoadCall(fn, file_path) ==
    [fn |-> fn, file_path |-> file_path, reader |-> Reader(file_path)]

\* The caller loads a file and keeps what comes back.
LoadReturned(r, c) ==
    /\ pre' = ret
    /\ arg' = ret
    /\ ret' = r.ret
    /\ err' = r.err
    /\ call' = c
    /\ stats' = NoStats
    /\ steps' = steps + 1

InitLoad == Loaded(EmptyTable)

LoadEnrolmentData ==
    /\ steps = 0
    /\ \E p \in FilePaths, t \in FileContents, ok \in BOOLEAN :
          LoadReturned(load_enrolment_data(p, t, ok),
                       LoadCall("load_enrolment_data", p))

LoadUpdateData ==
    /\ steps = 0
    /\ \E p \in FilePaths, t \in FileContents, ok \in BOOLEAN :
          LoadReturned(load_update_data(p, t, ok),
                       LoadCall("load_update_data", p))

NextLoad == LoadEnrolmentData \/ LoadUpdateData

SpecLoad == InitLoad /\ [][NextLoad]_vars

-----------------------------------------------------------------------------
(* data_cleaner.remove_duplicates *)

\* Largest number of records of a table given to remove_duplicates.
MaxDupRows == 3

\* df[mask]: the rows whose position is in keep, in order
SelectRows(t, keep) ==
    [cols |-> t.cols,
     rows |-> [k \in 1..Cardinality(keep) |->
                 t.rows[CHOOSE i \in keep : Cardinality({j \in keep : j <= i}) = k]]]

\* subset=None stands for all the columns; it is written <<>>
SubsetColumns(t, subset) == IF subset = <<>> THEN Range(t.cols) ELSE Range(subset)

\* two rows agree on the subset (a missing value equals a missing value)
SameKey(t, subset, i, j) ==
    \A c \in SubsetColumns(t, subset) : t.rows[i][c] = t.rows[j][c]

\* keep='first' marking every row but the last of its key
Duplicated_keeplast(t, subset, keep) ==
    {i \in DOMAIN t.rows : \E j \in DOMAIN t.rows : j > i /\ SameKey(t, subset, i, j)}

\* df.duplicated(subset=subset, keep=keep): the positions marked True
Duplicated(t, subset, keep) ==
    {i \in DOMAIN t.rows :
        \E j \in DOMAIN t.rows :
            /\ SameKey(t, subset, i, j)
            /\ CASE keep = "first" -> j < i
                 [] keep = "last" -> j > i
                 [] OTHER -> j # i}

\* df.drop_duplicates(subset=subset, keep=keep)
DropDuplicates(t, subset, keep) ==
    SelectRows(t, DOMAIN t.rows \ Duplicated(t, subset, keep))

remove_duplicates(df, subset, keep) ==
    LET h == DfCopy(Enter(df))
    IN IF ~(SubsetColumns(df, subset) \subseteq Range(df.cols))
       THEN Raise(h)                        \* KeyError from df.duplicated
       ELSE IF Cardinality(Duplicated(Cur(h), subset, keep)) = 0
       THEN Return(h)
       ELSE Return(Rebind(h, DropDuplicates(Cur(h), subset, keep)))

DupCols == <<"Aadhaar_ID", "State">>
DupRow(a, s) == [Aadhaar_ID |-> a, State |-> s]
DupTables ==
    {[cols |-> DupCols, rows |-> rs] :
        rs \in SeqUpTo({DupRow(a, s) : a \in Cells({1, 2}), s \in Cells({"KA", "MH"})},
                       MaxDupRows)}
Subsets == {<<>>, <<"Aadhaar_ID">>, <<"Aadhaar_ID", "State">>, <<"Enrolment_ID">>}
Keeps == {"first", "last", "False"}

InitDup == \E t \in DupTables : Loaded(t)

RemoveDuplicates ==
    /\ CanCall
    /\ \E subset \in Subsets, keep \in Keeps :
          Returned(remove_duplicates(ret, subset, keep),
                   [fn |-> "remove_duplicates", subset |-> subset, keep |-> keep],
                   NoStats)

NextDup == RemoveDuplicates

SpecDup == InitDup /\ [][NextDup]_vars

-----------------------------------------------------------------------------
(* analyzer.analyze_quality_categories_by_age                               *)
(*                                                                         *)
(* A percentage is kept exact, as an integer number of hundredths of a     *)
(* percent: 3333 is 33.33.                                                 *)

\* Largest number of records of a table given to the cross-tabulation.
MaxCrossRows == 3

\* The values of a set in ascending order (index and columns of a crosstab)
Sorted(S) ==
    [k \in 1..Cardinality(S) |->
        CHOOSE v \in S : Cardinality({w \in S : Rank(w) <= Rank(v)}) = k]

\* pd.crosstab leaves out the records with a missing value in either column
CrossRows(t, a, q) ==
    {i \in DOMAIN t.rows : NotNull(t.rows[i][a]) /\ NotNull(t.rows[i][q])}
CrossIndex(t, a, q) == {V(t.rows[i][a]) : i \in CrossRows(t, a, q)}
CrossColumns(t, a, q) == {V(t.rows[i][q]) : i \in CrossRows(t, a, q)}

\* one cell of pd.crosstab(df[a], df[q]): the number of records of group g in
\* category k
CrossCount(t, a, q, g, k) ==
    Cardinality({i \in CrossRows(t, a, q) :
                    V(t.rows[i][a]) = g /\ V(t.rows[i][q]) = k})
CrossRowTotal(t, a, q, g) ==
    Cardinality({i \in CrossRows(t, a, q) : V(t.rows[i][a]) = g})

\* normalize='all': every cell over the grand total
CrossPct_all(t, a, q, g, k) ==
    RoundHalfEven(CrossCount(t, a, q, g, k) * 100 * 100,
                  Cardinality(CrossRows(t, a, q)))

\* (pd.crosstab(..., normalize='index') * 100).round(2): one cell
CrossPct(t, a, q, g, k) ==
    RoundHalfEven(CrossCount(t, a, q, g, k) * 100 * 100, CrossRowTotal(t, a, q, g))

\* crosstab_pct: one row per age group, one column per quality category
CrossTabPct(t, a, q) ==
    LET index == Sorted(CrossIndex(t, a, q))
        columns == Sorted(CrossColumns(t, a, q))
    IN [cols |-> <<a>> \o columns,
        rows |-> [i \in DOMAIN index |->
                    [c \in {a} \cup Range(columns) |->
                        IF c = a THEN Val(index[i])
                        ELSE Val(CrossPct(t, a, q, index[i], c))]]]

\* df[c] on an absent column raises KeyError.  What pd.crosstab(margins=True)
\* does when no record has both values depends on the pandas release: it
\* raises or yields an empty table (on_empty).
analyze_quality_categories_by_age(df, age_group_column, quality_category_column, on_empty) ==
    LET h == Enter(df)
    IN IF ~HasCol(df, age_group_column) \/ ~HasCol(df, quality_category_column)
       THEN Raise(h)
       ELSE IF CrossRows(df, age_group_column, quality_category_column) = {}
               /\ on_empty = "raise"
       THEN Raise(h)
       ELSE Return(Rebind(h, CrossTabPct(df, age_group_column,
                                         quality_category_column)))

OnEmpty == {"raise", "empty"}

CrossRow(g, k) == [Age_Group |-> g, Quality_Category |-> k]
CrossTables ==
    {[cols |-> <<"Age_Group", "Quality_Category">>, rows |-> rs] :
        rs \in SeqUpTo({CrossRow(g, k) :
                            g \in Cells({"0-5 (Child)", "6-18 (Youth)"}),
                            k \in Cells({"Poor (0-40)", "Fair (41-60)", "Good (61-80)"})},
                       MaxCrossRows)}

InitCross == \E t \in CrossTables : Loaded(t)

AnalyzeQualityCategoriesByAge ==
    /\ steps = 0
    /\ \E on_empty \in OnEmpty :
          Returned(analyze_quality_categories_by_age(ret, "Age_Group",
                                                     "Quality_Category", on_empty),
                   [NoCall EXCEPT !.fn = "analyze_quality_categories_by_age"],
                   NoStats)

NextCross == AnalyzeQualityCategoriesByAge

SpecCross == InitCross /\ [][NextCross]_vars

-----------------------------------------------------------------------------
(* analyzer: grouped numeric summaries                                      *)
(*                                                                         *)
(* The numbers of a summary are rounded to two decimals (.round(2)); they  *)
(* are kept as integer numbers of hundredths: 4667 is 46.67.  A count is   *)
(* an integer.                                                             *)

\* The categories of a categorical column
Categories(g) == IF g = "Age_Group" THEN Range(AgeLabels) ELSE Range(QualityLabels)

\* The keys df.groupby(g) yields.  Missing keys are dropped.  For a categorical
\* column the unobserved categories are yielded too when the default of
\* `observed` is False (pandas before 3.0) and left out when it is True.
GroupKeys(t, g, observed) ==
    {V(t.rows[i][g]) : i \in Present(t, g)}
    \cup (IF DType(g) = "category" /\ ~observed THEN Categories(g) ELSE {})

Observed == BOOLEAN

Max(c, S) == CHOOSE v \in S : \A w \in S : v = w \/ Less(c, w, v)

\* the least h in lo..hi with q < (2h+1)^2
RECURSIVE LeastHalfAbove(_, _, _)
LeastHalfAbove(q, lo, hi) ==
    IF lo = hi THEN lo
    ELSE LET mid == (lo + hi) \div 2
         IN IF q < (2 * mid + 1) * (2 * mid + 1)
            THEN LeastHalfAbove(q, lo, mid)
            ELSE LeastHalfAbove(q, mid + 1, hi)

\* round(100 * sqrt(p / r)): the h with h - 1/2 <= 100 * sqrt(p/r) < h + 1/2
RoundSqrt(p, r) ==
    LeastHalfAbove((p \div r) * 40000 + ((p % r) * 40000) \div r, 0, 100 * MaxScore)

\* a standard deviation taken as zero for a single value
SummaryStd_zero(t, g, key, q) ==
    LET std == GroupStd(t, g, key, q)
    IN IF std = NaN THEN Val(0) ELSE Val(RoundSqrt(V(std)[1], V(std)[2]))

\* groupby(g)[q].agg('std').round(2)
SummaryStd(t, g, key, q) ==
    LET std == GroupStd(t, g, key, q)
    IN IF std = NaN THEN NaN ELSE Val(RoundSqrt(V(std)[1], V(std)[2]))

\* groupby(g)[q].agg(['count', 'mean', 'median', 'std', 'min', 'max']).round(2)
\* for one group
GroupSummary(t, g, key, q) ==
    LET S == GroupRows(t, g, key, q)
        values == {V(t.rows[i][q]) : i \in S}
        mean == GroupMean(t, g, key, q)
        median == Median(SelectRows(t, S), q)
    IN [count |-> Val(Cardinality(S)),
        mean |-> IF S = {} THEN NaN ELSE Val(RoundHalfEven(V(mean)[1] * 100, V(mean)[2])),
        median |-> IF S = {} THEN NaN ELSE Val(V(median) * 100),
        std |-> SummaryStd(t, g, key, q),
        min |-> IF S = {} THEN NaN ELSE Val(Min(q, values) * 100),
        max |-> IF S = {} THEN NaN ELSE Val(Max(q, values) * 100)]

QualityStatsCols ==
    <<"Count", "Mean_Quality", "Median_Quality", "Std_Dev", "Min_Quality", "Max_Quality">>
AggOf(c) ==
    CASE c = "Count" -> "count" [] c = "Mean_Quality" -> "mean"
      [] c = "Median_Quality" -> "median" [] c = "Std_Dev" -> "std"
      [] c = "Min_Quality" -> "min" [] c = "Max_Quality" -> "max"

\* quality_stats after reset_index(): one row per group, in ascending order
QualityStats(t, g, q, observed) ==
    LET keys == Sorted(GroupKeys(t, g, observed))
    IN [cols |-> <<g>> \o QualityStatsCols,
        rows |-> [i \in DOMAIN keys |->
                    [c \in {g} \cup Range(QualityStatsCols) |->
                        IF c = g THEN Val(keys[i])
                        ELSE GroupSummary(t, g, keys[i], q)[AggOf(c)]]]]

\* df.groupby(absent column) raises KeyError; idxmax() of a Mean_Quality column
\* that is empty or all missing raises too (lines 124-125).
analyze_biometric_quality_by_age(df, age_group_column, quality_column, observed) ==
    LET h == Enter(df)
        quality_stats == QualityStats(df, age_group_column, quality_column, observed)
    IN IF ~HasCol(df, age_group_column) \/ ~HasCol(df, quality_column)
       THEN Raise(h)
       ELSE IF \A i \in DOMAIN quality_stats.rows :
                  IsNull(quality_stats.rows[i]["Mean_Quality"])
       THEN Raise(h)
       ELSE Return(Rebind(h, quality_stats))

Aggs == <<"count", "mean", "median", "std", "min", "max">>

\* summary: the group is the index, written as the column <<g>>; the statistic
\* s of column c is the column <<c, s>>
Summary(t, g, available_cols, observed) ==
    LET keys == Sorted(GroupKeys(t, g, observed))
        columns == {<<c, s>> : c \in Range(available_cols), s \in Range(Aggs)}
    IN [cols |-> <<<<g>>>> \o
                 [k \in 1..(Len(available_cols) * Len(Aggs)) |->
                     <<available_cols[((k - 1) \div Len(Aggs)) + 1],
                       Aggs[((k - 1) % Len(Aggs)) + 1]>>],
        rows |-> [i \in DOMAIN keys |->
                    [c \in {<<g>>} \cup columns |->
                        IF c = <<g>> THEN Val(keys[i])
                        ELSE GroupSummary(t, g, keys[i], c[1])[c[2]]]]]

generate_summary_statistics(df, group_by_column, numeric_columns, observed) ==
    LET h == Enter(df)
        available_cols == SelectSeq(numeric_columns, LAMBDA col : HasCol(df, col))
    IN IF available_cols = <<>> THEN Return(Rebind(h, EmptyTable))
       ELSE IF ~HasCol(df, group_by_column) THEN Raise(h)
       ELSE Return(Rebind(h, Summary(df, group_by_column, available_cols, observed)))

NumericColumns ==
    {<<"Biometric_Quality_Score">>, <<"Biometric_Quality_Score", "Update_Count">>,
     <<"Update_Count">>}

InitSummary ==
    \/ \E t \in AnomalyTables : Loaded(t)
    \/ Loaded(ZExampleTable)

AnalyzeBiometricQualityByAge ==
    /\ steps = 0
    /\ \E observed \in Observed :
          Returned(analyze_biometric_quality_by_age(ret, "Age_Group",
                                                    "Biometric_Quality_Score", observed),
                   [NoCall EXCEPT !.fn = "analyze_biometric_quality_by_age"], NoStats)

GenerateSummaryStatistics ==
    /\ steps = 0
    /\ \E observed \in Observed, numeric_columns \in NumericColumns :
          Returned(generate_summary_statistics(ret, "Age_Group", numeric_columns,
                                               observed),
                   [NoCall EXCEPT !.fn = "generate_summary_statistics",
                                  !.features = numeric_columns], NoStats)

NextSummary == AnalyzeBiometricQualityByAge \/ GenerateSummaryStatistics

SpecSummary == InitSummary /\ [][NextSummary]_vars

-----------------------------------------------------------------------------
(* statistical_tests: the three hypothesis tests                            *)
(*                                                                         *)
(* A p-value and a significance level are fractions <<n, d>>, d > 0.  The  *)
(* p-value a SciPy routine computes from the data is an input of the       *)
(* model: any value of PValues, or NaN where the routine reports none.     *)
(* A test returns its results dictionary and no table.                     *)

\* Largest number of records of a table given to the hypothesis tests.
MaxTestRows == 3

\* p_value < alpha taken as p_value <= alpha
IsSignificant_le(p_value, alpha) ==
    NotNull(p_value) /\ V(p_value)[1] * alpha[2] <= alpha[1] * V(p_value)[2]

\* p_value < alpha (False for a NaN p-value)
IsSignificant(p_value, alpha) ==
    NotNull(p_value) /\ V(p_value)[1] * alpha[2] < alpha[1] * V(p_value)[2]

\* return results
ReturnResults(h, results) ==
    [arg |-> h.caller, ret |-> EmptyTable, err |-> FALSE, results |-> results]
\* an exception leaves the test: no results
RaiseResults(h) ==
    [arg |-> h.caller, ret |-> EmptyTable, err |-> TRUE, results |-> NoStats]

\* contingency_table.sum(axis=0): the number of records of category k
CrossColTotal(t, a, q, k) ==
    Cardinality({i \in CrossRows(t, a, q) : V(t.rows[i][q]) = k})

\* expected frequencies taken as row total * row total / grand total
ExpectedFreq_rowonly(t, a, q, g, k) ==
    <<CrossRowTotal(t, a, q, g) * CrossRowTotal(t, a, q, g),
      Cardinality(CrossRows(t, a, q))>>

\* chi2_contingency: the expected frequency of cell (g, k), the fraction
\* row total * column total / grand total
ExpectedFreq(t, a, q, g, k) ==
    <<CrossRowTotal(t, a, q, g) * CrossColTotal(t, a, q, k),
      Cardinality(CrossRows(t, a, q))>>

\* chi2_contingency: (rows - 1) * (columns - 1)
DegreesOfFreedom(t, a, q) ==
    (Cardinality(CrossIndex(t, a, q)) - 1) * (Cardinality(CrossColumns(t, a, q)) - 1)

\* df[c] on an absent column raises KeyError; chi2_contingency raises ValueError
\* on a table without any cell, and reports p = 1 for no degree of freedom.
chi_square_test_quality_by_age(df, age_group_column, quality_category_column, alpha, p) ==
    LET h == Enter(df)
        dof == DegreesOfFreedom(df, age_group_column, quality_category_column)
        p_value == IF dof = 0 THEN Val(<<1, 1>>) ELSE p
    IN IF ~HasCol(df, age_group_column) \/ ~HasCol(df, quality_category_column)
       THEN RaiseResults(h)
       ELSE IF CrossRows(df, age_group_column, quality_category_column) = {}
       THEN RaiseResults(h)
       ELSE ReturnResults(h,
                [test_name |-> "Chi-Square Test of Independence",
                 p_value |-> p_value,
                 degrees_of_freedom |-> dof,
                 alpha |-> alpha,
                 is_significant |-> IsSignificant(p_value, alpha)])

RECURSIVE ProdOver(_, _)
ProdOver(f, S) ==
    IF S = {} THEN 1
    ELSE LET i == CHOOSE i \in S : TRUE IN f[i] * ProdOver(f, S \ {i})

\* the sum of column q over the rows S
ColSum(t, q, S) == SumOver([i \in S |-> V(t.rows[i][q])], S)
ColSumSq(t, q, S) == SumOver([i \in S |-> V(t.rows[i][q]) * V(t.rows[i][q])], S)

\* fewer than one sample refused only
TooFewGroups_none(n) == n < 1

\* f_oneway and kruskal refuse fewer than two samples
TooFewGroups(n) == n < 2

\* groups: some group[quality_column].dropna() is empty
AnyEmptyGroup(t, g, q, keys) == \E key \in keys : GroupRows(t, g, key, q) = {}

\* sum(len(group) * (group.mean() - grand_mean)**2 for group in groups): NaN when
\* a group is empty (its mean is NaN), else the fraction
\*   sum_g (S_g*n - S*n_g)^2 * (P/n_g)  /  (n^2 * P)
\* with n, S the number and sum of all present scores, n_g, S_g those of group
\* g, and P the product of the n_g
SsBetween(t, g, q, keys) ==
    LET all == Present(t, q)
        n == Cardinality(all)
        S == ColSum(t, q, all)
        size == [key \in keys |-> Cardinality(GroupRows(t, g, key, q))]
        P == ProdOver(size, keys)
    IN IF AnyEmptyGroup(t, g, q, keys) THEN NaN
       ELSE Val(<<SumOver([key \in keys |->
                             LET d == ColSum(t, q, GroupRows(t, g, key, q)) * n
                                      - S * size[key]
                             IN d * d * (P \div size[key])], keys),
                  n * n * P>>)

\* sum((df[quality_column] - grand_mean)**2) with Python's sum: NaN as soon as
\* one score is missing, else the fraction (n*sum(x^2) - S^2) / n
SsTotal(t, q) ==
    LET all == Present(t, q)
        n == Cardinality(all)
        S == ColSum(t, q, all)
    IN IF \E i \in DOMAIN t.rows : IsNull(t.rows[i][q]) THEN NaN
       ELSE IF n = 0 THEN Val(<<0, 1>>)
       ELSE Val(<<n * ColSumSq(t, q, all) - S * S, n>>)

\* ss_between / ss_total if ss_total > 0 else 0
EtaSquared(ss_between, ss_total) ==
    IF NotNull(ss_total) /\ V(ss_total)[1] > 0
    THEN IF IsNull(ss_between) THEN NaN
         ELSE Val(<<V(ss_between)[1] * V(ss_total)[2],
                    V(ss_between)[2] * V(ss_total)[1]>>)
    ELSE Val(<<0, 1>>)

\* f_oneway reports NaN when a sample is empty
anova_test_quality_by_age(df, age_group_column, quality_column, alpha, p, observed) ==
    LET h == Enter(df)
        keys == GroupKeys(df, age_group_column, observed)
        p_value == IF AnyEmptyGroup(df, age_group_column, quality_column, keys)
                   THEN NaN ELSE p
    IN IF ~HasCol(df, age_group_column) \/ ~HasCol(df, quality_column)
       THEN RaiseResults(h)
       ELSE IF TooFewGroups(Cardinality(keys))
       THEN RaiseResults(h)
       ELSE ReturnResults(h,
                [test_name |-> "One-Way ANOVA",
                 p_value |-> p_value,
                 alpha |-> alpha,
                 is_significant |-> IsSignificant(p_value, alpha),
                 eta_squared |-> EtaSquared(SsBetween(df, age_group_column,
                                                      quality_column, keys),
                                            SsTotal(df, quality_column))])

\* kruskal reports NaN when a sample is empty and raises ValueError when all
\* the numbers are identical
kruskal_wallis_test(df, age_group_column, quality_column, alpha, p, observed) ==
    LET h == Enter(df)
        keys == GroupKeys(df, age_group_column, observed)
        empty == AnyEmptyGroup(df, age_group_column, quality_column, keys)
        p_value == IF empty THEN NaN ELSE p
        values == {V(df.rows[i][quality_column]) :
                      i \in UNION {GroupRows(df, age_group_column, key, quality_column) :
                                      key \in keys}}
    IN IF ~HasCol(df, age_group_column) \/ ~HasCol(df, quality_column)
       THEN RaiseResults(h)
       ELSE IF TooFewGroups(Cardinality(keys))
       THEN RaiseResults(h)
       ELSE IF ~empty /\ Cardinality(values) = 1
       THEN RaiseResults(h)
       ELSE ReturnResults(h,
                [test_name |-> "Kruskal-Wallis H Test",
                 p_value |-> p_value,
                 alpha |-> alpha,
                 is_significant |-> IsSignificant(p_value, alpha)])

DefaultAlpha == <<5, 100>>
Alphas == {DefaultAlpha, <<1, 100>>}
PValues == {Val(<<1, 1000>>), Val(<<1, 100>>), Val(<<49, 1000>>), Val(<<5, 100>>),
            Val(<<51, 1000>>), NaN}

TestCols == <<"Age_Group", "Biometric_Quality_Score", "Quality_Category">>
\* a record scored q in group g, with the category of its score
TestRow(g, q) ==
    [Age_Group |-> g, Biometric_Quality_Score |-> q,
     Quality_Category |-> Cut(q, QualityBins, QualityLabels, TRUE, FALSE)]
TestTables ==
    {[cols |-> TestCols, rows |-> rs] :
        rs \in SeqUpTo({TestRow(g, q) :
                            g \in Cells({"0-5 (Child)", "6-18 (Youth)"}),
                            q \in Cells({40, 90})},
                       MaxTestRows)}

TestCall(fn, alpha, observed) == [fn |-> fn, alpha |-> alpha, observed |-> observed]

InitTests == \E t \in TestTables : Loaded(t)

ChiSquareTestQualityByAge ==
    /\ steps = 0
    /\ \E alpha \in Alphas, p \in PValues :
          LET r == chi_square_test_quality_by_age(ret, "Age_Group", "Quality_Category",
                                                  alpha, p)
          IN Returned(r, TestCall("chi_square_test_quality_by_age", alpha, TRUE),
                      r.results)

AnovaTestQualityByAge ==
    /\ steps = 0
    /\ \E alpha \in Alphas, p \in PValues, observed \in Observed :
          LET r == anova_test_quality_by_age(ret, "Age_Group",
                                             "Biometric_Quality_Score", alpha, p,
                                             observed)
          IN Returned(r, TestCall("anova_test_quality_by_age", alpha, observed),
                      r.results)

KruskalWallisTest ==
    /\ steps = 0
    /\ \E alpha \in Alphas, p \in PValues, observed \in Observed :
          LET r == kruskal_wallis_test(ret, "Age_Group", "Biometric_Quality_Score",
                                       alpha, p, observed)
          IN Returned(r, TestCall("kruskal_wallis_test", alpha, observed), r.results)

NextTests == ChiSquareTestQualityByAge \/ AnovaTestQualityByAge \/ KruskalWallisTest

SpecTests == InitTests /\ [][NextTests]_vars

-----------------------------------------------------------------------------
(* data_cleaner.filter_by_date_range                                        *)
(*                                                                         *)
(* A date (a Timestamp of a datetime column) is the integer yyyymmdd; a    *)
(* start_date / end_date argument is a 'YYYY-MM-DD' string, "" for None.   *)

\* pd.to_datetime on the date strings the model passes
ToDatetime(s) ==
    CASE s = "2020-01-01" -> 20200101
      [] s = "2021-06-30" -> 20210630
      [] s = "2023-12-31" -> 20231231

\* df[df[date_column] >= bound] / df[df[date_column] <= bound]: a missing date
\* compares False
FilterFrom(t, c, bound) ==
    SelectRows(t, {i \in DOMAIN t.rows : NotNull(t.rows[i][c]) /\ V(t.rows[i][c]) >= bound})
FilterUntil(t, c, bound) ==
    SelectRows(t, {i \in DOMAIN t.rows : NotNull(t.rows[i][c]) /\ V(t.rows[i][c]) <= bound})

\* An absent column returns the copy.  The report line divides the number of
\* removed records by original_len: ZeroDivisionError on a table without records.
filter_by_date_range(df, date_column, start_date, end_date) ==
    LET h0 == DfCopy(Enter(df))
        h1 == IF start_date # ""
              THEN Rebind(h0, FilterFrom(Cur(h0), date_column, ToDatetime(start_date)))
              ELSE h0
        h2 == IF end_date # ""
              THEN Rebind(h1, FilterUntil(Cur(h1), date_column, ToDatetime(end_date)))
              ELSE h1
    IN IF ~HasCol(df, date_column) THEN Return(h0)
       ELSE IF NRows(df) = 0 THEN Raise(h2)
       ELSE Return(h2)

-----------------------------------------------------------------------------
(* data_cleaner.standardize_categorical_columns                             *)

\* str.strip on the text values of the model, and str.title, str.upper and
\* str.lower on the stripped values
StrStrip(s) == IF s = " mh " THEN "mh" ELSE s
StrTitle(s) ==
    CASE s \in {"KA", "Ka", "ka"} -> "Ka"
      [] s \in {"MH", "Mh", "mh"} -> "Mh"
      [] s \in {"UNKNOWN", "Unknown", "unknown"} -> "Unknown"
      [] OTHER -> s
StrUpper(s) ==
    CASE s \in {"KA", "Ka", "ka"} -> "KA"
      [] s \in {"MH", "Mh", "mh"} -> "MH"
      [] s \in {"UNKNOWN", "Unknown", "unknown"} -> "UNKNOWN"
      [] OTHER -> s
StrLower(s) ==
    CASE s \in {"KA", "Ka", "ka"} -> "ka"
      [] s \in {"MH", "Mh", "mh"} -> "mh"
      [] s \in {"UNKNOWN", "Unknown", "unknown"} -> "unknown"
      [] OTHER -> s

\* the if / elif chain on case; any other case leaves the stripped value
ApplyCase(s, case) ==
    CASE case = "title" -> StrTitle(s)
      [] case = "upper" -> StrUpper(s)
      [] case = "lower" -> StrLower(s)
      [] OTHER -> s

\* One pass of the loop: an absent column and a column that is not text are
\* skipped; a missing value stays missing.
RECURSIVE StandardizeLoop(_, _, _)
StandardizeLoop(h, columns, case) ==
    IF columns = <<>> THEN Return(h)
    ELSE LET col == Head(columns)
             t == Cur(h)
         IN IF ~HasCol(t, col) \/ DType(col) # "object"
            THEN StandardizeLoop(h, Tail(columns), case)
            ELSE StandardizeLoop(
                    InPlace(h, SetColumn(t, col,
                        [i \in DOMAIN t.rows |->
                            IF IsNull(t.rows[i][col]) THEN NaN
                            ELSE Val(ApplyCase(StrStrip(V(t.rows[i][col])), case))])),
                    Tail(columns), case)

standardize_categorical_columns(df, columns, case) ==
    StandardizeLoop(DfCopy(Enter(df)), columns, case)

-----------------------------------------------------------------------------
(* analyzer.analyze_age_distribution *)

\* df[c].value_counts().sort_index(): the present values; a categorical column
\* lists all its categories, the unobserved ones with count 0
ValueCountsIndex(t, c) ==
    {V(t.rows[i][c]) : i \in Present(t, c)}
    \cup (IF DType(c) = "category" THEN Categories(c) ELSE {})

\* summary: Count, and Percentage = (count / len(df) * 100).round(2) in
\* hundredths, missing for a table without records
AgeDistribution(t, c) ==
    LET index == Sorted(ValueCountsIndex(t, c))
    IN [cols |-> <<"Age_Group", "Count", "Percentage">>,
        rows |-> [i \in DOMAIN index |->
                    [Age_Group |-> Val(index[i]),
                     Count |-> Val(Count(t, c, index[i])),
                     Percentage |->
                        IF NRows(t) = 0 THEN NaN
                        ELSE Val(RoundHalfEven(Count(t, c, index[i]) * 100 * 100,
                                               NRows(t)))]]]

\* df[c] on an absent column raises KeyError; idxmax() of an empty Count column
\* raises ValueError.
analyze_age_distribution(df, age_group_column) ==
    LET h == Enter(df)
    IN IF ~HasCol(df, age_group_column) THEN Raise(h)
       ELSE IF ValueCountsIndex(df, age_group_column) = {} THEN Raise(h)
       ELSE Return(Rebind(h, AgeDistribution(df, age_group_column)))

-----------------------------------------------------------------------------
(* analyzer.identify_outliers                                               *)
(*                                                                         *)
(* A quartile is kept as four times its value, a bound as eight times.     *)

\* 4 * df[c].quantile(num/4), linear interpolation between the two nearest
\* present values; NaN without a present value
Quartile(t, c, num) ==
    LET n == Cardinality(Present(t, c))
        k == (num * (n - 1)) \div 4
        r == (num * (n - 1)) % 4
    IN IF n = 0 THEN NaN
       ELSE IF r = 0 THEN Val(4 * NthSmallest(t, c, k + 1))
       ELSE Val(4 * NthSmallest(t, c, k + 1)
                + r * (NthSmallest(t, c, k + 2) - NthSmallest(t, c, k + 1)))

\* (df[c] < Q1 - 1.5 * IQR) | (df[c] > Q3 + 1.5 * IQR)
IqrOutliers(t, c) ==
    LET Q1 == Quartile(t, c, 1)
        Q3 == Quartile(t, c, 3)
    IN IF IsNull(Q1) THEN {}
       ELSE {i \in Present(t, c) :
                \/ 8 * V(t.rows[i][c]) < 2 * V(Q1) - 3 * (V(Q3) - V(Q1))
                \/ 8 * V(t.rows[i][c]) > 2 * V(Q3) + 3 * (V(Q3) - V(Q1))}

\* df[c].mean() and df[c].std() (ddof=1) as the fractions of GroupMean and GroupStd
ColMean(t, c) ==
    IF Present(t, c) = {} THEN NaN
    ELSE Val(<<ColSum(t, c, Present(t, c)), Cardinality(Present(t, c))>>)
ColStd(t, c) ==
    LET n == Cardinality(Present(t, c))
        sum == ColSum(t, c, Present(t, c))
    IN IF n < 2 THEN NaN
       ELSE Val(<<n * ColSumSq(t, c, Present(t, c)) - sum * sum, n * (n - 1)>>)

\* np.abs((df[c] - mean) / std) > 3
ZScoreOutliers(t, c) ==
    {i \in DOMAIN t.rows :
        AbsGreater(ZScore(t.rows[i][c], ColMean(t, c), ColStd(t, c)), <<3, 1>>)}

\* An absent column returns an empty table and an empty dictionary (written
\* NoStats).  outlier_percentage divides by len(df): ZeroDivisionError on a
\* table without records.  The percentage is the fraction <<100 * count, len>>.
identify_outliers(df, column, method) ==
    LET h == Enter(df)
        outliers == IF method = "iqr" THEN IqrOutliers(df, column)
                    ELSE ZScoreOutliers(df, column)
    IN IF ~HasCol(df, column)
       THEN [arg |-> df, ret |-> EmptyTable, err |-> FALSE, results |-> NoStats]
       ELSE IF NRows(df) = 0 THEN RaiseResults(h)
       ELSE [arg |-> df, ret |-> SelectRows(df, outliers), err |-> FALSE,
             results |-> [method |-> IF method = "iqr" THEN "IQR" ELSE "Z-Score",
                          outlier_count |-> Cardinality(outliers),
                          outlier_percentage |->
                              <<100 * Cardinality(outliers), NRows(df)>>]]

-----------------------------------------------------------------------------
(* The pipeline: the Cleaner, Analyzer and Tester operations chained on one *)
(* table.  The caller goes on with the table a Cleaner operation returns;  *)
(* after an Analyzer or Tester operation it goes on with the table it      *)
(* passed.  A column name is passed as the table has it or as it has not.  *)

\* Largest number of records of a table fed to the pipeline.
MaxPipelineRows == 2
\* Operations the caller chains in the pipeline.
MaxPipelineSteps == 2

PipelineCols == <<"Age", "Biometric_Quality_Score", "State", "Enrolment_Date">>
PipelineRecords ==
    {[Age |-> Val(4), Biometric_Quality_Score |-> Val(40), State |-> Val("KA"),
      Enrolment_Date |-> Val(20200101)],
     [Age |-> Val(30), Biometric_Quality_Score |-> Val(90), State |-> Val(" mh "),
      Enrolment_Date |-> Val(20230615)],
     [Age |-> NaN, Biometric_Quality_Score |-> NaN, State |-> NaN,
      Enrolment_Date |-> NaN]}
RawTables ==
    {[cols |-> PipelineCols, rows |-> rs] : rs \in SeqUpTo(PipelineRecords, MaxPipelineRows)}

\* a raw table after both bucketing functions
Bucketed(t) ==
    create_biometric_quality_categories(
        create_age_groups(t, "Age", AgeBins, AgeLabels, "Age_Group").ret,
        "Biometric_Quality_Score", "Quality_Category").ret

PipelineCall(fn, columns) == [fn |-> fn, columns |-> columns]

\* The caller keeps the table it passed and drops the report.
Kept(r, c, s) ==
    /\ pre' = ret
    /\ arg' = r.arg
    /\ ret' = r.arg
    /\ err' = r.err
    /\ call' = c
    /\ stats' = s
    /\ steps' = steps + 1

CanChain == steps < MaxPipelineSteps /\ ~err

AgeColumns == {"Age", "Age_Years"}
ScoreColumns == {"Biometric_Quality_Score", "Quality_Score"}
GroupColumns == {"Age_Group", "Age_Band"}
CategoryColumns == {"Quality_Category", "Quality_Band"}
DateColumns == {"Enrolment_Date", "Update_Date"}
StartDates == {"", "2020-01-01", "2021-06-30"}
EndDates == {"", "2023-12-31"}
Cases == {"title", "upper", "lower"}
Methods == {"iqr", "zscore"}
PipelinePValues == {Val(<<1, 100>>), NaN}

InitPipeline == \E t \in RawTables : Loaded(t) \/ Loaded(Bucketed(t))

PipeCreateAgeGroups ==
    /\ CanChain
    /\ \E c \in AgeColumns :
          Returned(create_age_groups(ret, c, AgeBins, AgeLabels, "Age_Group"),
                   PipelineCall("create_age_groups", <<c>>), NoStats)

PipeCreateBiometricQualityCategories ==
    /\ CanChain
    /\ \E c \in ScoreColumns :
          Returned(create_biometric_quality_categories(ret, c, "Quality_Category"),
                   PipelineCall("create_biometric_quality_categories", <<c>>), NoStats)

PipeHandleMissingValues ==
    /\ CanChain
    /\ \E strategy \in Strategies :
          Returned(handle_missing_values(ret, strategy, DefaultThreshold),
                   PipelineCall("handle_missing_values", <<>>), NoStats)

PipeStandardizeCategoricalColumns ==
    /\ CanChain
    /\ \E case \in Cases :
          Returned(standardize_categorical_columns(ret, <<"State", "Gender", "Age">>, case),
                   PipelineCall("standardize_categorical_columns", <<>>), NoStats)

PipeRemoveDuplicates ==
    /\ CanChain
    /\ \E keep \in Keeps :
          Returned(remove_duplicates(ret, <<>>, keep),
                   PipelineCall("remove_duplicates", <<>>), NoStats)

PipeFilterByDateRange ==
    /\ CanChain
    /\ \E c \in DateColumns, start_date \in StartDates, end_date \in EndDates :
          Returned(filter_by_date_range(ret, c, start_date, end_date),
                   PipelineCall("filter_by_date_range", <<c>>), NoStats)

PipeAnalyzeAgeDistribution ==
    /\ CanChain
    /\ \E g \in GroupColumns :
          Kept(analyze_age_distribution(ret, g),
               PipelineCall("analyze_age_distribution", <<g>>), NoStats)

PipeAnalyzeBiometricQualityByAge ==
    /\ CanChain
    /\ \E g \in GroupColumns, q \in ScoreColumns, observed \in Observed :
          Kept(analyze_biometric_quality_by_age(ret, g, q, observed),
               PipelineCall("analyze_biometric_quality_by_age", <<g, q>>), NoStats)

PipeAnalyzeQualityCategoriesByAge ==
    /\ CanChain
    /\ \E g \in GroupColumns, k \in CategoryColumns, on_empty \in OnEmpty :
          Kept(analyze_quality_categories_by_age(ret, g, k, on_empty),
               PipelineCall("analyze_quality_categories_by_age", <<g, k>>), NoStats)

PipeGenerateSummaryStatistics ==
    /\ CanChain
    /\ \E g \in GroupColumns, observed \in Observed :
          Kept(generate_summary_statistics(ret, g, <<"Biometric_Quality_Score">>, observed),
               PipelineCall("generate_summary_statistics", <<g>>), NoStats)

PipeIdentifyOutliers ==
    /\ CanChain
    /\ \E c \in ScoreColumns, method \in Methods :
          LET r == identify_outliers(ret, c, method)
          IN Kept(r, PipelineCall("identify_outliers", <<c>>), r.results)

PipeChiSquareTestQualityByAge ==
    /\ CanChain
    /\ \E g \in GroupColumns, k \in CategoryColumns, p \in PipelinePValues :
          LET r == chi_square_test_quality_by_age(ret, g, k, DefaultAlpha, p)
          IN Kept(r, PipelineCall("chi_square_test_quality_by_age", <<g, k>>), r.results)

PipeAnovaTestQualityByAge ==
    /\ CanChain
    /\ \E g \in GroupColumns, q \in ScoreColumns, p \in PipelinePValues,
          observed \in Observed :
          LET r == anova_test_quality_by_age(ret, g, q, DefaultAlpha, p, observed)
          IN Kept(r, PipelineCall("anova_test_quality_by_age", <<g, q>>), r.results)

PipeKruskalWallisTest ==
    /\ CanChain
    /\ \E g \in GroupColumns, q \in ScoreColumns, p \in PipelinePValues,
          observed \in Observed :
          LET r == kruskal_wallis_test(ret, g, q, DefaultAlpha, p, observed)
          IN Kept(r, PipelineCall("kruskal_wallis_test", <<g, q>>), r.results)

PipeIsolationForestAnomalyDetection ==
    /\ CanChain
    /\ \E features \in {<<"Age", "Biometric_Quality_Score">>, <<"Gender">>} :
       \E predictions \in [XClean(ret, AvailableFeatures(ret, features)) -> {-1, 1}] :
          LET r == isolation_forest_anomaly_detection(ret, features, predictions)
          IN Kept(r, PipelineCall("isolation_forest_anomaly_detection", <<>>),
                  r.ret.stats)

PipeDetectAgeQualityAnomalies ==
    /\ CanChain
    /\ \E g \in GroupColumns, q \in ScoreColumns :
          LET r == detect_age_quality_anomalies(ret, g, q, <<2, 1>>)
          IN Kept(r, PipelineCall("detect_age_quality_anomalies", <<g, q>>),
                  r.ret.stats)

NextPipeline ==
    \/ PipeCreateAgeGroups
    \/ PipeCreateBiometricQualityCategories
    \/ PipeHandleMissingValues
    \/ PipeStandardizeCategoricalColumns
    \/ PipeRemoveDuplicates
    \/ PipeFilterByDateRange
    \/ PipeAnalyzeAgeDistribution
    \/ PipeAnalyzeBiometricQualityByAge
    \/ PipeAnalyzeQualityCategoriesByAge
    \/ PipeGenerateSummaryStatistics
    \/ PipeIdentifyOutliers
    \/ PipeChiSquareTestQualityByAge
    \/ PipeAnovaTestQualityByAge
    \/ PipeKruskalWallisTest
    \/ PipeIsolationForestAnomalyDetection
    \/ PipeDetectAgeQualityAnomalies

SpecPipeline == InitPipeline /\ [][NextPipeline]_vars

-----------------------------------------------------------------------------
(* data_cleaner.get_cleaning_summary *)

NoSummary == [original_records |-> 0, cleaned_records |-> 0, records_removed |-> 0,
              removal_percentage |-> <<0, 1>>, original_columns |-> 0,
              cleaned_columns |-> 0, columns_removed |-> 0]

\* The summary dictionary (lines 418-426); removal_percentage is the fraction
\* <<numerator, denominator>>.  The division by len(df_original) is a division of
\* Python integers: ZeroDivisionError when the original table has no record.
get_cleaning_summary(df_original, df_cleaned) ==
    IF NRows(df_original) = 0 THEN [summary |-> NoSummary, err |-> TRUE]
    ELSE [summary |->
            [original_records |-> NRows(df_original),
             cleaned_records |-> NRows(df_cleaned),
             records_removed |-> NRows(df_original) - NRows(df_cleaned),
             removal_percentage |->
                 <<(NRows(df_original) - NRows(df_cleaned)) * 100, NRows(df_original)>>,
             original_columns |-> Len(df_original.cols),
             cleaned_columns |-> Len(df_cleaned.cols),
             columns_removed |-> Len(df_original.cols) - Len(df_cleaned.cols)],
          err |-> FALSE]

-----------------------------------------------------------------------------
(* The Cleaner: its operations chained on one table, each on the table the *)
(* one before returned, while the caller keeps the raw table for           *)
(* get_cleaning_summary (df_raw in pre, df_clean in ret).  Enrolment_ID    *)
(* identifies a record; a raw table may have no record at all.             *)

\* Largest number of records of a raw table given to the Cleaner.
MaxCleanerRows == 2
\* Cleaner operations the caller chains.
MaxCleanerSteps == 2

CleanerCols == <<"Enrolment_ID", "Age", "Biometric_Quality_Score", "State", "Enrolment_Date">>
CleanerRecords ==
    {[Age |-> Val(4), Biometric_Quality_Score |-> Val(40), State |-> Val("KA"),
      Enrolment_Date |-> Val(20200101)],
     [Age |-> Val(30), Biometric_Quality_Score |-> Val(90), State |-> Val(" mh "),
      Enrolment_Date |-> Val(20230615)],
     [Age |-> Val(130), Biometric_Quality_Score |-> Val(40), State |-> Val("KA"),
      Enrolment_Date |-> NaN],
     [Age |-> NaN, Biometric_Quality_Score |-> NaN, State |-> NaN,
      Enrolment_Date |-> NaN]}
CleanerRow(i, r) ==
    [Enrolment_ID |-> Val(i), Age |-> r.Age,
     Biometric_Quality_Score |-> r.Biometric_Quality_Score, State |-> r.State,
     Enrolment_Date |-> r.Enrolment_Date]
CleanerTables ==
    {[cols |-> CleanerCols, rows |-> [i \in DOMAIN rs |-> CleanerRow(i, rs[i])]] :
        rs \in SeqUpTo(CleanerRecords, MaxCleanerRows)}

\* df_clean = <operation>(df_clean, ...): the caller goes on with the returned table
Cleaned(r, c) ==
    /\ pre' = pre
    /\ arg' = r.arg
    /\ ret' = r.ret
    /\ err' = r.err
    /\ call' = c
    /\ stats' = NoStats
    /\ steps' = steps + 1

CanClean == steps < MaxCleanerSteps /\ ~err

CleanerSubsets == {<<>>, <<"State">>}

InitCleaner == \E t \in CleanerTables : Loaded(t)

CleanCreateAgeGroups ==
    /\ CanClean
    /\ Cleaned(create_age_groups(ret, "Age", AgeBins, AgeLabels, "Age_Group"),
               PipelineCall("create_age_groups", <<"Age">>))

CleanCreateBiometricQualityCategories ==
    /\ CanClean
    /\ Cleaned(create_biometric_quality_categories(ret, "Biometric_Quality_Score",
                                                   "Quality_Category"),
               PipelineCall("create_biometric_quality_categories",
                            <<"Biometric_Quality_Score">>))

CleanHandleMissingValues ==
    /\ CanClean
    /\ \E strategy \in Strategies :
          Cleaned(handle_missing_values(ret, strategy, DefaultThreshold),
                  PipelineCall("handle_missing_values", <<strategy>>))

CleanStandardizeCategoricalColumns ==
    /\ CanClean
    /\ \E case \in Cases :
          Cleaned(standardize_categorical_columns(ret, <<"State">>, case),
                  PipelineCall("standardize_categorical_columns", <<"State", case>>))

CleanRemoveDuplicates ==
    /\ CanClean
    /\ \E subset \in CleanerSubsets, keep \in Keeps :
          Cleaned(remove_duplicates(ret, subset, keep),
                  PipelineCall("remove_duplicates", subset \o <<keep>>))

CleanFilterByDateRange ==
    /\ CanClean
    /\ \E start_date \in StartDates, end_date \in EndDates :
          Cleaned(filter_by_date_range(ret, "Enrolment_Date", start_date, end_date),
                  PipelineCall("filter_by_date_range", <<start_date, end_date>>))

\* summary = get_cleaning_summary(df_raw, df_clean), at any point of the chain
CleanGetCleaningSummary ==
    /\ ~err
    /\ call.fn # "get_cleaning_summary"
    /\ LET r == get_cleaning_summary(pre, ret)
       IN /\ pre' = pre
          /\ arg' = ret
          /\ ret' = ret
          /\ err' = r.err
          /\ call' = PipelineCall("get_cleaning_summary", <<>>)
          /\ stats' = r.summary
          /\ steps' = steps

NextCleaner ==
    \/ CleanCreateAgeGroups
    \/ CleanCreateBiometricQualityCategories
    \/ CleanHandleMissingValues
    \/ CleanStandardizeCategoricalColumns
    \/ CleanRemoveDuplicates
    \/ CleanFilterByDateRange
    \/ CleanGetCleaningSummary

SpecCleaner == InitCleaner /\ [][NextCleaner]_vars

-----------------------------------------------------------------------------
(* analyzer.analyze_update_patterns_by_age                                  *)
(*                                                                         *)
(* Two tables: the updates (Enrolment_ID, Update_Type) and the enrolments  *)
(* (Enrolment_ID, Age_Group).  The Age_Group column of the enrolment table *)
(* is a categorical when the table comes from create_age_groups and text   *)
(* when it was read back from a processed file; `categorical` says which.  *)
(* A rate is kept in hundredths.                                           *)

\* Largest number of records of the update table and of the enrolment table.
MaxUpdateRows == 3
MaxEnrolmentRows == 3

\* The rows df_updates.merge(df_enrolment[['Enrolment_ID', g]], on='Enrolment_ID',
\* how='left') makes of update record i and the ones after it: one per enrolment
\* record with its Enrolment_ID, one with a missing g when there is none.
RECURSIVE LeftMergeRows(_, _, _, _)
LeftMergeRows(u, en, g, i) ==
    IF i > Len(u.rows) THEN <<>>
    ELSE LET ms == SelectSeq(en.rows,
                      LAMBDA r : r["Enrolment_ID"] = u.rows[i]["Enrolment_ID"])
             with(c) == [k \in Range(u.cols) \cup {g} |-> IF k = g THEN c ELSE u.rows[i][k]]
         IN (IF ms = <<>> THEN <<with(NaN)>> ELSE [k \in DOMAIN ms |-> with(ms[k][g])])
            \o LeftMergeRows(u, en, g, i + 1)
LeftMerge(u, en, g) == [cols |-> Append(u.cols, g), rows |-> LeftMergeRows(u, en, g, 1)]

\* The index of df[c].value_counts(): the present values, and every category
\* (the unobserved ones with count 0) when the column is a categorical
CountsIndex(t, c, categorical) ==
    {V(t.rows[i][c]) : i \in Present(t, c)} \cup (IF categorical THEN Categories(c) ELSE {})

\* (update_counts / enrolment_counts * 1000).round(2) for one group, in hundredths;
\* 0/0 is NaN
UpdateRate(updates, enrolments) ==
    IF enrolments = 0 THEN NaN ELSE Val(RoundHalfEven(updates * 1000 * 100, enrolments))

\* The division aligns the two counts on the union of their indexes, so
\* update_rate has one entry per group of either; the DataFrame constructor raises
\* ValueError when its columns differ in length.  idxmax() raises (or yields a
\* missing label that .loc rejects) when no rate is present.
analyze_update_patterns_by_age(df_updates, df_enrolment, age_group_column, categorical) ==
    LET both == [updates |-> df_updates, enrolment |-> df_enrolment]
        raised == [arg |-> both, ret |-> EmptyTable, err |-> TRUE]
    IN IF \/ ~HasCol(df_enrolment, "Enrolment_ID") \/ ~HasCol(df_enrolment, age_group_column)
          \/ ~HasCol(df_updates, "Enrolment_ID") \/ HasCol(df_updates, age_group_column)
       THEN raised
       ELSE LET df_merged == LeftMerge(df_updates, df_enrolment, age_group_column)
                update_counts == CountsIndex(df_merged, age_group_column, categorical)
                enrolment_counts == CountsIndex(df_enrolment, age_group_column, categorical)
                update_rate == update_counts \cup enrolment_counts
                index == Sorted(update_counts)
                summary ==
                    [cols |-> <<"Age_Group", "Total_Updates", "Enrolments", "Updates_per_1000">>,
                     rows |-> [k \in DOMAIN index |->
                        [Age_Group |-> Val(index[k]),
                         Total_Updates |-> Val(Count(df_merged, age_group_column, index[k])),
                         Enrolments |-> Val(Count(df_enrolment, age_group_column, index[k])),
                         Updates_per_1000 |->
                             UpdateRate(Count(df_merged, age_group_column, index[k]),
                                        Count(df_enrolment, age_group_column, index[k]))]]]
            IN IF Cardinality(update_rate) # Cardinality(update_counts) THEN raised
               ELSE IF \A k \in DOMAIN summary.rows : IsNull(summary.rows[k]["Updates_per_1000"])
               THEN raised
               ELSE [arg |-> both, ret |-> summary, err |-> FALSE]

UpdateRow(id) == [Enrolment_ID |-> Val(id), Update_Type |-> Val("Address")]
EnrolmentRow(id, g) == [Enrolment_ID |-> Val(id), Age_Group |-> g]
UpdateTables ==
    {[cols |-> <<"Enrolment_ID", "Update_Type">>, rows |-> [i \in DOMAIN ids |-> UpdateRow(ids[i])]] :
        ids \in SeqUpTo(1..MaxEnrolmentRows, MaxUpdateRows)}
EnrolmentTables ==
    {[cols |-> <<"Enrolment_ID", "Age_Group">>,
      rows |-> [i \in DOMAIN gs |-> EnrolmentRow(i, gs[i])]] :
        gs \in SeqUpTo(Cells({"0-5 (Child)", "6-18 (Youth)"}), MaxEnrolmentRows)}

InitUpdates ==
    \E u \in UpdateTables, en \in EnrolmentTables : Loaded([updates |-> u, enrolment |-> en])

AnalyzeUpdatePatternsByAge ==
    /\ steps = 0
    /\ \E categorical \in BOOLEAN :
          Returned(analyze_update_patterns_by_age(ret.updates, ret.enrolment, "Age_Group",
                                                  categorical),
                   [fn |-> "analyze_update_patterns_by_age", categorical |-> categorical],
                   NoStats)

NextUpdates == AnalyzeUpdatePatternsByAge

SpecUpdates == InitUpdates /\ [][NextUpdates]_vars

-----------------------------------------------------------------------------
(* statistical_tests.generate_statistical_report                            *)
(*                                                                         *)
(* The report is kept as the lines that depend on the results: the Result  *)
(* line of each of the three tests, the conclusion line and the number of  *)
(* governance recommendations under it.                                    *)

Strong == "STRONG EVIDENCE: All tests confirm age significantly affects biometric quality"
Mixed == "MIXED EVIDENCE: Some tests show significance, others don't"

\* 'SIGNIFICANT' if results['is_significant'] else 'NOT SIGNIFICANT'
ResultLine(results) == IF results.is_significant THEN "SIGNIFICANT" ELSE "NOT SIGNIFICANT"

generate_statistical_report(chi2_results, anova_results, kruskal_results, anomaly_stats) ==
    LET all_significant == /\ chi2_results.is_significant
                           /\ anova_results.is_significant
                           /\ kruskal_results.is_significant
    IN [chi_square |-> ResultLine(chi2_results),
        anova |-> ResultLine(anova_results),
        kruskal |-> ResultLine(kruskal_results),
        n_anomalies |-> anomaly_stats.n_anomalies,
        conclusion |-> IF all_significant THEN Strong ELSE Mixed,
        recommendations |-> IF all_significant THEN 4 ELSE 0]

\* The dictionaries the three tests return at the default alpha, by the p-value the
\* test computed, and the statistics of the anomaly detection
ReportPValues == {Val(<<1, 1000>>), Val(<<49, 1000>>), Val(<<5, 100>>), Val(<<1, 2>>), NaN}
TestResults ==
    {[p_value |-> p, alpha |-> DefaultAlpha, is_significant |-> IsSignificant(p, DefaultAlpha)] :
        p \in ReportPValues}
ReportAnomalyStats == {NoStats, [NoStats EXCEPT !.total_records = 3, !.n_anomalies = 1,
                                                !.n_unusually_high = 1]}

InitReport ==
    \E chi2 \in TestResults, anova \in TestResults, kruskal \in TestResults,
       anomaly \in ReportAnomalyStats :
        Loaded([chi2_results |-> chi2, anova_results |-> anova,
                kruskal_results |-> kruskal, anomaly_stats |-> anomaly])

GenerateStatisticalReport ==
    /\ steps = 0
    /\ Returned([arg |-> ret,
                 ret |-> generate_statistical_report(ret.chi2_results, ret.anova_results,
                                                     ret.kruskal_results, ret.anomaly_stats),
                 err |-> FALSE],
                [fn |-> "generate_statistical_report"], NoStats)

NextReport == GenerateStatisticalReport

SpecReport == InitReport /\ [][NextReport]_vars

-----------------------------------------------------------------------------
(* Properties of the bucketing functions (checked under SpecBucket) *)

AfterAgeGroups == call.fn = "create_age_groups" /\ ~err
AfterQualityCategories == call.fn = "create_biometric_quality_categories" /\ ~err

FiveAgeLabels == {"0-5 (Child)", "6-18 (Youth)", "19-40 (Young Adult)",
                  "41-60 (Middle Age)", "60+ (Elderly)"}

\* C1: create_age_groups with the default bins is total and unambiguous on
\* [0,120): every record whose age lies in that range carries exactly one of the
\* five default labels, and age 6 carries the second label, '6-18 (Youth)'.
C1_AgeBucketingTotal ==
    call.fn = "create_age_groups" =>
        /\ ~err
        /\ HasCol(ret, "Age_Group")
        /\ \A i \in DOMAIN ret.rows :
             LET a == ret.rows[i]["Age"]
                 g == ret.rows[i]["Age_Group"]
             IN (NotNull(a) /\ 0 <= V(a) /\ V(a) < 120) =>
                  /\ NotNull(g)
                  /\ Cardinality({l \in FiveAgeLabels : l = V(g)}) = 1
                  /\ (V(a) = 6 => V(g) = "6-18 (Youth)")

\* Witness of C1: a record of age 6 has been labelled '6-18 (Youth)'.
C1_Witness ==
    /\ AfterAgeGroups
    /\ \E i \in DOMAIN ret.rows :
         ret.rows[i]["Age"] = Val(6) /\ ret.rows[i]["Age_Group"] = Val("6-18 (Youth)")

\* The label whose name states the range an integer age lies in.
AgeLabelByName(a) ==
    IF a \in 0..5 THEN "0-5 (Child)"
    ELSE IF a \in 6..18 THEN "6-18 (Youth)"
    ELSE IF a \in 19..40 THEN "19-40 (Young Adult)"
    ELSE IF a \in 41..60 THEN "41-60 (Middle Age)"
    ELSE "60+ (Elderly)"

\* C2: create_age_groups with the default bins labels every age in 0..119 with
\* the bin whose name states its range (0..5 Child, 6..18 Youth, 19..40 Young
\* Adult, 41..60 Middle Age, 61..119 Elderly), and the Age column
\* [3, 10, 25, 45, 65] yields the five labels in that order.
C2_AgeLabelsMatchNames ==
    call.fn = "create_age_groups" =>
        /\ \A i \in DOMAIN ret.rows :
             LET a == ret.rows[i]["Age"]
             IN (NotNull(a) /\ V(a) \in 0..119) =>
                  ret.rows[i]["Age_Group"] = Val(AgeLabelByName(V(a)))
        /\ (Column(ret, "Age") = [i \in 1..5 |-> Val(ExampleAges[i])] =>
              Column(ret, "Age_Group") =
                  <<Val("0-5 (Child)"), Val("6-18 (Youth)"), Val("19-40 (Young Adult)"),
                    Val("41-60 (Middle Age)"), Val("60+ (Elderly)")>>)

\* Witness of C2: the example Age column [3, 10, 25, 45, 65] has been labelled.
C2_Witness ==
    /\ AfterAgeGroups
    /\ Column(ret, "Age") = <<Val(3), Val(10), Val(25), Val(45), Val(65)>>
    /\ ret.rows[5]["Age_Group"] = Val("60+ (Elderly)")

\* The category whose name states the range an integer score lies in.
QualityLabelByName(q) ==
    IF q \in 0..40 THEN "Poor (0-40)"
    ELSE IF q \in 41..60 THEN "Fair (41-60)"
    ELSE IF q \in 61..80 THEN "Good (61-80)"
    ELSE "Excellent (81-100)"

\* C3: create_biometric_quality_categories labels every score in 0..100 with the
\* category whose name states its range (0..40 Poor, 41..60 Fair, 61..80 Good,
\* 81..100 Excellent), and the scores [35, 55, 75, 95] yield the four
\* categories in that order.
C3_QualityLabelsMatchNames ==
    call.fn = "create_biometric_quality_categories" =>
        /\ ~err
        /\ HasCol(ret, "Quality_Category")
        /\ \A i \in DOMAIN ret.rows :
             LET q == ret.rows[i]["Biometric_Quality_Score"]
             IN (NotNull(q) /\ V(q) \in 0..100) =>
                  ret.rows[i]["Quality_Category"] = Val(QualityLabelByName(V(q)))
        /\ (Column(ret, "Biometric_Quality_Score") =
                [i \in 1..4 |-> Val(ExampleScores[i])] =>
              Column(ret, "Quality_Category") =
                  <<Val("Poor (0-40)"), Val("Fair (41-60)"), Val("Good (61-80)"),
                    Val("Excellent (81-100)")>>)

\* Witness of C3: the example scores [35, 55, 75, 95] have been categorised.
C3_Witness ==
    /\ AfterQualityCategories
    /\ Column(ret, "Biometric_Quality_Score") = <<Val(35), Val(55), Val(75), Val(95)>>
    /\ ret.rows[4]["Quality_Category"] = Val("Excellent (81-100)")

\* A value pd.cut is expected to leave unlabelled: missing, negative, or at or
\* above the last edge.
Unlabelable(c, lastEdge) == IsNull(c) \/ V(c) < 0 \/ V(c) >= lastEdge

\* C4: in create_age_groups and create_biometric_quality_categories a record whose
\* value is missing, negative or at/above the last edge (age >= 120, score >= 101)
\* gets no label, the call does not fail, no record is lost or changed, and every
\* other record of the table is labelled.
C4_OutOfRangeUnlabelled ==
    /\ call.fn = "create_age_groups" =>
        /\ ~err
        /\ Column(ret, "Age") = Column(pre, "Age")
        /\ \A i \in DOMAIN ret.rows :
             IsNull(ret.rows[i]["Age_Group"]) <=> Unlabelable(pre.rows[i]["Age"], 120)
    /\ call.fn = "create_biometric_quality_categories" =>
        /\ ~err
        /\ Column(ret, "Biometric_Quality_Score") = Column(pre, "Biometric_Quality_Score")
        /\ \A i \in DOMAIN ret.rows :
             IsNull(ret.rows[i]["Quality_Category"])
                 <=> Unlabelable(pre.rows[i]["Biometric_Quality_Score"], 101)

\* Witness of C4: a table holding a record with age 120 and score 101 next to a
\* record in range went through both functions; the first record carries no
\* label and the second carries both.
C4_Witness ==
    /\ call.fn \in {"create_age_groups", "create_biometric_quality_categories"}
    /\ ~err
    /\ HasCol(ret, "Age_Group") /\ HasCol(ret, "Quality_Category")
    /\ \E i, j \in DOMAIN ret.rows :
         /\ ret.rows[i]["Age"] = Val(120)
         /\ ret.rows[i]["Biometric_Quality_Score"] = Val(101)
         /\ IsNull(ret.rows[i]["Age_Group"]) /\ IsNull(ret.rows[i]["Quality_Category"])
         /\ IsNull(ret.rows[j]["Biometric_Quality_Score"])
         /\ NotNull(ret.rows[j]["Age_Group"]) /\ IsNull(ret.rows[j]["Quality_Category"])

-----------------------------------------------------------------------------
(* Properties of handle_missing_values (checked under SpecMissing) *)

AfterMissing(strategy) ==
    call.fn = "handle_missing_values" /\ call.strategy = strategy /\ ~err

HasMissing(t) == \E c \in Range(t.cols) : MissingCount(t, c) > 0

\* C5: handle_missing_values never mutates the table it is given: for every
\* strategy and every input the caller's table has the same rows, columns and
\* values after the call as before it.
C5_InputNotMutated ==
    call.fn = "handle_missing_values" => arg = pre

\* Witness of C5: fill_mode and fill_median each returned a table that differs from
\* the input while the caller's table still holds its missing values.
C5_Witness ==
    /\ \/ AfterMissing("fill_mode")
       \/ AfterMissing("fill_median")
    /\ ret # pre
    /\ arg = pre
    /\ HasMissing(arg)

\* C6: handle_missing_values with strategy 'report' returns a table with the same
\* records, the same columns and the same values as the input, whether or not the
\* input has missing values.
C6_ReportReturnsSameTable ==
    (call.fn = "handle_missing_values" /\ call.strategy = "report") =>
        /\ ~err
        /\ NRows(ret) = NRows(pre)
        /\ Len(ret.cols) = Len(pre.cols)
        /\ ret = pre

\* Witness of C6: 'report' ran on a table that has missing values.
C6_Witness ==
    /\ AfterMissing("report")
    /\ HasMissing(pre)
    /\ NRows(ret) = MaxMissingRows

\* C7: handle_missing_values with strategy 'drop_cols' removes exactly the columns
\* whose missing fraction (missing count / record count) is strictly greater than
\* the threshold, and no others; a column exactly at the threshold is kept.
C7_DropColsExactlyAboveThreshold ==
    (call.fn = "handle_missing_values" /\ call.strategy = "drop_cols") =>
        /\ ~err
        /\ \A c \in Range(pre.cols) :
             (~HasCol(ret, c)) <=>
                 MissingCount(pre, c) * call.threshold[2] > call.threshold[1] * NRows(pre)

-----------------------------------------------------------------------------
(* Properties of detect_age_quality_anomalies (checked under SpecAnomaly) *)

AfterDetect == call.fn = "detect_age_quality_anomalies" /\ ~err

\* The magnitude of a z-score exceeds the threshold t >= 0 on the given side.
Beyond(z, side, t) ==
    /\ NotNull(z)
    /\ V(z).s = side
    /\ V(z).num * t[2] * t[2] > t[1] * t[1] * V(z).den

\* C8: detect_age_quality_anomalies flags a record exactly when the magnitude of
\* its within-group z-score is strictly greater than threshold_std, labelling it
\* 'Unusually High Quality' when z > threshold, 'Unusually Low Quality' when
\* z < -threshold and 'Normal' otherwise; the record with z = 3 of the example
\* group (mean 50, standard deviation 5, value 65) is 'Unusually High Quality' at
\* threshold 2, and 'Normal' at thresholds 3 and 4.
C8_FlaggedIffBeyondThreshold ==
    call.fn = "detect_age_quality_anomalies" =>
        /\ ~err
        /\ \A i \in DOMAIN ret.rows :
             LET z == ret.rows[i]["z_score"]
                 high == Beyond(z, 1, call.threshold)
                 low == Beyond(z, -1, call.threshold)
             IN /\ ret.rows[i]["is_anomaly"] = Val(high \/ low)
                /\ ret.rows[i]["anomaly_type"] =
                       IF high THEN Val("Unusually High Quality")
                       ELSE IF low THEN Val("Unusually Low Quality")
                       ELSE Val("Normal")
        /\ pre = ZExampleTable =>
             /\ ret.rows[1]["Biometric_Quality_Score"] = Val(65)
             /\ ret.rows[1]["group_mean"] = Val(<<50 * 11, 11>>)
             /\ V(ret.rows[1]["z_score"]).s = 1
             /\ V(ret.rows[1]["z_score"]).num = 3 * 3 * V(ret.rows[1]["z_score"]).den
             /\ call.threshold = <<2, 1>> =>
                  /\ ret.rows[1]["is_anomaly"] = Val(TRUE)
                  /\ ret.rows[1]["anomaly_type"] = Val("Unusually High Quality")
             /\ call.threshold \in {<<3, 1>>, <<4, 1>>} =>
                  /\ ret.rows[1]["is_anomaly"] = Val(FALSE)
                  /\ ret.rows[1]["anomaly_type"] = Val("Normal")

\* Witness of C8: the example record with z = 3 has been flagged at threshold 2.
C8_Witness ==
    /\ AfterDetect
    /\ pre = ZExampleTable
    /\ call.threshold = <<2, 1>>
    /\ ret.rows[1]["anomaly_type"] = Val("Unusually High Quality")
    /\ stats.n_anomalies = 1

\* The number of records of the input that belong to group key
GroupSize(t, key) ==
    Cardinality({i \in DOMAIN t.rows : t.rows[i]["Age_Group"] = Val(key)})

\* C9: in detect_age_quality_anomalies a record that is the only member of its
\* group is never flagged: its is_anomaly is false and its anomaly_type is
\* 'Normal', for every threshold >= 0.
C9_SingletonNeverFlagged ==
    call.fn = "detect_age_quality_anomalies" =>
        \A i \in DOMAIN ret.rows :
            GroupSize(pre, V(ret.rows[i]["Age_Group"])) = 1 =>
                /\ ret.rows[i]["is_anomaly"] = Val(FALSE)
                /\ ret.rows[i]["anomaly_type"] = Val("Normal")

\* Witness of C9: at threshold 0 the single member of a group is 'Normal' while a
\* record of a larger group of the same table is flagged.
C9_Witness ==
    /\ AfterDetect
    /\ call.threshold = <<0, 1>>
    /\ \E i, j \in DOMAIN ret.rows :
         /\ GroupSize(pre, V(ret.rows[i]["Age_Group"])) = 1
         /\ NotNull(ret.rows[i]["Biometric_Quality_Score"])
         /\ ret.rows[i]["anomaly_type"] = Val("Normal")
         /\ ret.rows[j]["is_anomaly"] = Val(TRUE)

-----------------------------------------------------------------------------
(* Properties of isolation_forest_anomaly_detection (checked under SpecIso) *)

\* The call returned a scored table.
AfterIso ==
    /\ call.fn = "isolation_forest_anomaly_detection"
    /\ ~err
    /\ HasCol(ret, "Anomaly")

\* The record has a missing value in one of the selected features.
MissingFeature(t, i, features) ==
    \E f \in Range(features) : HasCol(t, f) /\ IsNull(t.rows[i][f])

\* C10: in the table isolation_forest_anomaly_detection returns, every record with
\* a missing value in any selected feature, numeric or categorical, has the
\* neutral default Anomaly = 0 and no anomaly score, and every other record has a
\* flag in {-1, 1} and an anomaly score.
C10_MissingFeatureExcluded ==
    AfterIso =>
        \A i \in DOMAIN ret.rows :
            IF MissingFeature(pre, i, call.features)
            THEN /\ ret.rows[i]["Anomaly"] = Val(0)
                 /\ IsNull(ret.rows[i]["Anomaly_Score"])
            ELSE /\ V(ret.rows[i]["Anomaly"]) \in {-1, 1}
                 /\ NotNull(ret.rows[i]["Anomaly_Score"])

-----------------------------------------------------------------------------
(* Properties of the loaders (checked under SpecLoad) *)

AfterLoad == call.fn \in {"load_enrolment_data", "load_update_data"}

\* every spelling of an extension in upper and lower case
Spellings(ext) ==
    {s \in [1..Len(ext) -> {"c", "C", "s", "S", "v", "V", "x", "X", "l", "L", "."}] :
        \A i \in 1..Len(ext) :
            \/ s[i] = ext[i]
            \/ ext[i] = "c" /\ s[i] = "C"
            \/ ext[i] = "s" /\ s[i] = "S"
            \/ ext[i] = "v" /\ s[i] = "V"
            \/ ext[i] = "x" /\ s[i] = "X"
            \/ ext[i] = "l" /\ s[i] = "L"}

\* the file's name is a non-empty stem followed by one of the spellings
HasExtension(path, exts) ==
    \E x \in exts :
        /\ Len(path) > Len(x)
        /\ SubSeq(path, Len(path) - Len(x) + 1, Len(path)) = x
        /\ path[Len(path) - Len(x)] # "/"

\* C12: both loaders pick the CSV reader for .csv and the Excel reader for
\* .xlsx and .xls, whatever the case of the extension; for every other
\* extension, and for none, they raise and return no table.
C12_ReaderByExtension ==
    AfterLoad =>
        LET csv == HasExtension(call.file_path, Spellings(DotCsv))
            excel == HasExtension(call.file_path,
                                  Spellings(DotXlsx) \cup Spellings(DotXls))
        IN /\ csv => call.reader = "read_csv"
           /\ excel => call.reader = "read_excel"
           /\ ~csv /\ ~excel => call.reader = "none" /\ err /\ ret = EmptyTable

C12_Witness ==
    /\ call.fn = "load_update_data"
    /\ call.file_path = <<"d", ".", "C", "S", "V">>
    /\ call.reader = "read_csv" /\ ~err /\ ret = ExampleAgeTable

-----------------------------------------------------------------------------
(* Properties of remove_duplicates (checked under SpecDup) *)

AfterKeepFirst == call.fn = "remove_duplicates" /\ call.keep = "first" /\ ~err

\* the values of a record in the columns of the call's subset
KeyOf(r) == [c \in SubsetColumns(pre, call.subset) |-> r[c]]

\* C13: with keep='first', of the records that agree on the subset key exactly
\* one is in the result and it is the first seen, with its values unchanged;
\* a record whose key is unique is kept; no two records of the result share
\* a key.
C13_KeepFirst ==
    AfterKeepFirst =>
        /\ ret.cols = pre.cols
        /\ \A i \in DOMAIN pre.rows :
              LET same == {j \in DOMAIN pre.rows : KeyOf(pre.rows[j]) = KeyOf(pre.rows[i])}
                  first == CHOOSE j \in same : \A k \in same : j <= k
                  kept == {j \in DOMAIN ret.rows : KeyOf(ret.rows[j]) = KeyOf(pre.rows[i])}
              IN /\ Cardinality(kept) = 1
                 /\ \A j \in kept : ret.rows[j] = pre.rows[first]
        /\ \A j \in DOMAIN ret.rows :
              \E i \in DOMAIN pre.rows : KeyOf(pre.rows[i]) = KeyOf(ret.rows[j])

C13_Witness ==
    /\ AfterKeepFirst
    /\ call.subset = <<"Aadhaar_ID">>
    /\ pre.rows = <<DupRow(Val(1), Val("KA")), DupRow(Val(2), Val("KA")),
                    DupRow(Val(1), Val("MH"))>>
    /\ ret.rows = <<DupRow(Val(1), Val("KA")), DupRow(Val(2), Val("KA"))>>

-----------------------------------------------------------------------------
(* Properties of analyze_quality_categories_by_age (checked under SpecCross) *)

AfterCross == call.fn = "analyze_quality_categories_by_age" /\ ~err

\* the sum of the percentages of row i of the result, in hundredths
RowSum(i) ==
    SumOver([c \in Range(ret.cols) \ {"Age_Group"} |-> V(ret.rows[i][c])],
            Range(ret.cols) \ {"Age_Group"})

Abs(x) == IF x < 0 THEN -x ELSE x

\* C15 as stated: the percentages of every age group of the result sum to 100.
C15_RowsSumTo100 ==
    AfterCross => \A i \in DOMAIN ret.rows : RowSum(i) = 100 * 100

\* C15 amended: every cell is rounded to two decimals, so the percentages of
\* an age group sum to 100 within half a hundredth per quality category.
C15_RowsSumTo100WithinRounding ==
    AfterCross =>
        \A i \in DOMAIN ret.rows :
            2 * Abs(RowSum(i) - 100 * 100) <= Len(ret.cols) - 1

\* three records of one age group in three categories: 33.33 + 33.33 + 33.33
C15_Witness ==
    /\ AfterCross
    /\ Len(pre.rows) = 3
    /\ \E i \in DOMAIN ret.rows : RowSum(i) = 9999

-----------------------------------------------------------------------------
(* Properties of the grouped summaries (checked under SpecSummary) *)

AfterQualityStats == call.fn = "analyze_biometric_quality_by_age" /\ ~err
AfterSummary ==
    call.fn = "generate_summary_statistics" /\ ~err /\ ret # EmptyTable

\* the scores of the records of group key in the table passed in
ScoresOf(key) ==
    {i \in DOMAIN pre.rows :
        /\ pre.rows[i]["Age_Group"] = Val(key)
        /\ NotNull(pre.rows[i]["Biometric_Quality_Score"])}
SingleScore(key) ==
    V(pre.rows[CHOOSE i \in ScoresOf(key) : TRUE]["Biometric_Quality_Score"])

\* C16: in both grouped summaries a group with a single scored record has a
\* missing standard deviation, not zero, while its count is 1 and its mean,
\* median, minimum and maximum are that record's score.
C16_SingletonStdMissing ==
    /\ AfterQualityStats =>
          \A i \in DOMAIN ret.rows :
              LET r == ret.rows[i]
                  key == V(r["Age_Group"])
              IN Cardinality(ScoresOf(key)) = 1 =>
                    /\ r["Std_Dev"] = NaN
                    /\ r["Count"] = Val(1)
                    /\ \A c \in {"Mean_Quality", "Median_Quality", "Min_Quality",
                                 "Max_Quality"} : r[c] = Val(100 * SingleScore(key))
    /\ AfterSummary =>
          \A i \in DOMAIN ret.rows :
              LET r == ret.rows[i]
                  key == V(r[<<"Age_Group">>])
              IN Cardinality(ScoresOf(key)) = 1 =>
                    /\ r[<<"Biometric_Quality_Score", "std">>] = NaN
                    /\ r[<<"Biometric_Quality_Score", "count">>] = Val(1)
                    /\ \A s \in {"mean", "median", "min", "max"} :
                          r[<<"Biometric_Quality_Score", s>>] = Val(100 * SingleScore(key))

C16_Witness ==
    /\ AfterSummary
    /\ pre.rows = <<GroupScoreRow(Val("0-5 (Child)"), Val(40)),
                    GroupScoreRow(Val("6-18 (Youth)"), Val(50)),
                    GroupScoreRow(Val("6-18 (Youth)"), Val(90))>>
    /\ \E i \in DOMAIN ret.rows :
          /\ ret.rows[i][<<"Age_Group">>] = Val("0-5 (Child)")
          /\ ret.rows[i][<<"Biometric_Quality_Score", "std">>] = NaN
          /\ ret.rows[i][<<"Biometric_Quality_Score", "mean">>] = Val(4000)
    /\ \E i \in DOMAIN ret.rows :
          /\ ret.rows[i][<<"Age_Group">>] = Val("6-18 (Youth)")
          /\ ret.rows[i][<<"Biometric_Quality_Score", "std">>] = Val(2828)

-----------------------------------------------------------------------------
(* Properties of the hypothesis tests (checked under SpecTests) *)

Tests == {"chi_square_test_quality_by_age", "anova_test_quality_by_age",
          "kruskal_wallis_test"}
AfterChiSquare == call.fn = "chi_square_test_quality_by_age" /\ ~err
AfterTest == call.fn \in Tests /\ ~err
AfterAnova == call.fn = "anova_test_quality_by_age" /\ ~err

\* the records of the table passed in that the contingency table counts
Observations ==
    {i \in DOMAIN pre.rows :
        NotNull(pre.rows[i]["Age_Group"]) /\ NotNull(pre.rows[i]["Quality_Category"])}

\* the numerators of the expected frequencies, whose denominator is the
\* grand total
ExpectedNumerators ==
    LET cells == {<<pre.rows[i]["Age_Group"], pre.rows[j]["Quality_Category"]>> :
                     i \in Observations, j \in Observations}
    IN [x \in cells |->
           ExpectedFreq(pre, "Age_Group", "Quality_Category", V(x[1]), V(x[2]))[1]]

\* C17: the expected frequencies of the chi-square test sum to the observed
\* total, for every contingency table with a positive grand total.
C17_ExpectedSumsToObserved ==
    AfterChiSquare /\ Cardinality(Observations) > 0 =>
        /\ \A g \in CrossIndex(pre, "Age_Group", "Quality_Category"),
              k \in CrossColumns(pre, "Age_Group", "Quality_Category") :
              ExpectedFreq(pre, "Age_Group", "Quality_Category", g, k)[2]
                  = Cardinality(Observations)
        /\ SumOver(ExpectedNumerators, DOMAIN ExpectedNumerators)
              = Cardinality(Observations) * Cardinality(Observations)

C17_Witness ==
    /\ AfterChiSquare
    /\ Cardinality(Observations) = 3
    /\ stats.degrees_of_freedom = 1

\* C18: each test reports is_significant = true exactly when its p-value is
\* strictly less than alpha, and echoes alpha in its result.
C18_SignificantIffBelowAlpha ==
    AfterTest =>
        /\ stats.alpha = call.alpha
        /\ stats.is_significant <=>
              /\ stats.p_value # NaN
              /\ V(stats.p_value)[1] * call.alpha[2] < call.alpha[1] * V(stats.p_value)[2]

\* a p-value equal to alpha is not significant
C18_Witness ==
    /\ AfterTest
    /\ call.fn = "kruskal_wallis_test"
    /\ call.alpha = DefaultAlpha
    /\ stats.p_value = Val(<<5, 100>>)
    /\ ~stats.is_significant

\* the records that enter the analysis of variance: a group and a score
Scored ==
    {i \in DOMAIN pre.rows :
        NotNull(pre.rows[i]["Age_Group"])
        /\ NotNull(pre.rows[i]["Biometric_Quality_Score"])}
ScoredGroups == {V(pre.rows[i]["Age_Group"]) : i \in Scored}
ScoredIn(key) == {i \in Scored : pre.rows[i]["Age_Group"] = Val(key)}
Score(i) == V(pre.rows[i]["Biometric_Quality_Score"])

\* n * SS_total = n * sum(x^2) - (sum x)^2 over the scored records
TotalSS ==
    Cardinality(Scored) * SumOver([i \in Scored |-> Score(i) * Score(i)], Scored)
    - SumOver([i \in Scored |-> Score(i)], Scored)
      * SumOver([i \in Scored |-> Score(i)], Scored)

\* n * P * SS_between = n * sum_g S_g^2 * (P/n_g) - P * (sum x)^2, P the product
\* of the group sizes n_g
BetweenSS ==
    LET size == [key \in ScoredGroups |-> Cardinality(ScoredIn(key))]
        P == ProdOver(size, ScoredGroups)
        S == SumOver([i \in Scored |-> Score(i)], Scored)
    IN Cardinality(Scored)
         * SumOver([key \in ScoredGroups |->
                      LET Sg == SumOver([i \in ScoredIn(key) |-> Score(i)], ScoredIn(key))
                      IN Sg * Sg * (P \div size[key])], ScoredGroups)
       - P * S * S
GroupSizeProduct ==
    ProdOver([key \in ScoredGroups |-> Cardinality(ScoredIn(key))], ScoredGroups)

\* C19: eta-squared is the between-group sum of squares over the total sum of
\* squares, and 0 when the total sum of squares is zero.
C19_EtaSquaredIsRatio ==
    AfterAnova =>
        IF TotalSS = 0 THEN stats.eta_squared = Val(<<0, 1>>)
        ELSE /\ stats.eta_squared # NaN
             /\ V(stats.eta_squared)[1] * GroupSizeProduct * TotalSS
                   = BetweenSS * V(stats.eta_squared)[2]

\* the number of groups the grouping column yields
GroupsYielded ==
    Cardinality({V(pre.rows[i]["Age_Group"]) :
                    i \in {i \in DOMAIN pre.rows : NotNull(pre.rows[i]["Age_Group"])}})
    + (IF call.observed THEN 0
       ELSE Cardinality(Range(AgeLabels)
                        \ {V(pre.rows[i]["Age_Group"]) :
                              i \in {i \in DOMAIN pre.rows :
                                        NotNull(pre.rows[i]["Age_Group"])}}))

\* C20: with fewer than two groups the analysis of variance and the
\* Kruskal-Wallis test return no result dictionary: the failure of the
\* underlying routine reaches the caller.
C20_FewerThanTwoGroupsRaises ==
    /\ call.fn \in {"anova_test_quality_by_age", "kruskal_wallis_test"}
    /\ GroupsYielded < 2
    => err /\ stats = NoStats /\ ret = EmptyTable

C20_Witness ==
    /\ call.fn = "anova_test_quality_by_age"
    /\ Len(pre.rows) = 3
    /\ GroupsYielded = 1
    /\ err

-----------------------------------------------------------------------------
(* Properties of the pipeline (checked under SpecPipeline) *)

\* the operations that take the name of a column
ColumnOperations ==
    {"create_age_groups", "create_biometric_quality_categories", "filter_by_date_range",
     "analyze_age_distribution", "analyze_biometric_quality_by_age",
     "analyze_quality_categories_by_age", "identify_outliers",
     "chi_square_test_quality_by_age", "anova_test_quality_by_age",
     "kruskal_wallis_test", "detect_age_quality_anomalies"}

\* the last call named a column the table passed in does not have
ColumnAbsent ==
    /\ call.fn \in ColumnOperations
    /\ \E i \in DOMAIN call.columns : call.columns[i] \notin Range(pre.cols)

\* C11: an operation that is given the name of an absent column does not
\* fail: it returns (an empty or default result, or the table unchanged) and
\* leaves the table it was passed as it was.
C11_AbsentColumnDegrades == ColumnAbsent => ~err /\ arg = pre

-----------------------------------------------------------------------------
(* Properties of the Cleaner chain (checked under SpecCleaner) *)

\* the bucket create_age_groups gives an age
AgeBucket(c) == Cut(c, AgeBins, AgeLabels, TRUE, FALSE)

\* C21: once the table has its Age_Group column, after every further Cleaner
\* operation each record's Age_Group is the bucket of that record's Age (missing
\* exactly when the Age is missing or out of range).
C21_AgeGroupFollowsAge ==
    (~err /\ HasCol(ret, "Age_Group") /\ HasCol(ret, "Age")) =>
        \A i \in DOMAIN ret.rows : ret.rows[i]["Age_Group"] = AgeBucket(ret.rows[i]["Age"])

-----------------------------------------------------------------------------
(* Further properties of detect_age_quality_anomalies (checked under SpecAnomaly) *)

\* C22: detect_age_quality_anomalies returns one labelled row per record of its
\* input, and total_records is the number of records of the input, also when
\* records have no age group.
C22_OneRowPerRecord ==
    AfterDetect =>
        /\ NRows(ret) = NRows(pre)
        /\ stats.total_records = NRows(pre)

AnomalyTypes == {"Normal", "Unusually High Quality", "Unusually Low Quality"}
TypeOf(i) == ret.rows[i]["anomaly_type"]

\* C28: in the result of detect_age_quality_anomalies, for every threshold >= 0,
\* a row's is_anomaly is true exactly when its anomaly_type is not 'Normal', every
\* row carries one of the three anomaly types, and
\* n_anomalies = n_unusually_high + n_unusually_low <= total_records.
C28_FlagsAgreeWithTypes ==
    (AfterDetect /\ call.threshold[1] >= 0) =>
        /\ \A i \in DOMAIN ret.rows :
             /\ NotNull(TypeOf(i)) /\ V(TypeOf(i)) \in AnomalyTypes
             /\ V(ret.rows[i]["is_anomaly"]) = (TypeOf(i) # Val("Normal"))
        /\ stats.n_unusually_high =
             Cardinality({i \in DOMAIN ret.rows : TypeOf(i) = Val("Unusually High Quality")})
        /\ stats.n_unusually_low =
             Cardinality({i \in DOMAIN ret.rows : TypeOf(i) = Val("Unusually Low Quality")})
        /\ stats.n_anomalies = stats.n_unusually_high + stats.n_unusually_low
        /\ stats.n_anomalies <= stats.total_records
        /\ stats.total_records = NRows(ret)

\* Witness of C28: at threshold 0 a result holds a row of each anomaly type, two
\* anomalies among its three rows.
C28_Witness ==
    /\ AfterDetect
    /\ call.threshold = <<0, 1>>
    /\ \E i, j, k \in DOMAIN ret.rows :
         /\ TypeOf(i) = Val("Unusually High Quality")
         /\ TypeOf(j) = Val("Unusually Low Quality")
         /\ TypeOf(k) = Val("Normal")
    /\ stats.n_unusually_high = 1 /\ stats.n_unusually_low = 1
    /\ stats.n_anomalies = 2 /\ stats.total_records = 3

-----------------------------------------------------------------------------
(* Further properties of handle_missing_values (checked under SpecMissing) *)

\* a record without a missing value in any column of table t
Complete(t, r) == \A c \in Range(t.cols) : r[c] # NaN

\* C24: handle_missing_values with 'drop_rows' returns exactly the records of its
\* input that have no missing value in any column, in their original order, with
\* the columns of the input.
C24_DropRowsKeepsCompleteRecords ==
    call.fn = "handle_missing_values" /\ call.strategy = "drop_rows" =>
        /\ ~err
        /\ ret.cols = pre.cols
        /\ ret.rows = SelectSeq(pre.rows, LAMBDA r : Complete(pre, r))

\* Witness of C24: of three records the second (no State) and the third (no Age)
\* were dropped and the first, complete, was kept.
C24_Witness ==
    /\ AfterMissing("drop_rows")
    /\ NRows(pre) = 3 /\ NRows(ret) = 1
    /\ Complete(pre, pre.rows[1])
    /\ IsNull(pre.rows[2]["State"]) /\ NotNull(pre.rows[2]["Age"])
    /\ IsNull(pre.rows[3]["Age"]) /\ NotNull(pre.rows[3]["State"])
    /\ ret.rows[1] = pre.rows[1]

\* The present values of column c of the input, and how often v occurs among them
Given(c) == {i \in DOMAIN pre.rows : pre.rows[i][c] # NaN}
Times(c, v) == Cardinality({i \in Given(c) : pre.rows[i][c] = Val(v)})

\* The most frequent value of a text column, the first in string order among equals
MostFrequent(c) ==
    CHOOSE v \in {V(pre.rows[i][c]) : i \in Given(c)} :
        \A w \in {V(pre.rows[i][c]) : i \in Given(c)} :
            \/ Times(c, w) < Times(c, v)
            \/ (Times(c, w) = Times(c, v) /\ (w = v \/ Rank(v) < Rank(w)))

\* The value of rank k (1 = smallest) among the present values of a numeric column
AtRank(c, k) ==
    CHOOSE v \in {V(pre.rows[i][c]) : i \in Given(c)} :
        /\ Cardinality({i \in Given(c) : V(pre.rows[i][c]) < v}) < k
        /\ Cardinality({i \in Given(c) : V(pre.rows[i][c]) <= v}) >= k
MiddleValue(c) ==
    LET n == Cardinality(Given(c))
    IN (AtRank(c, (n + 1) \div 2) + AtRank(c, (n \div 2) + 1)) \div 2

\* What a fill strategy puts into a missing cell of column c
Filling(c, strategy) ==
    IF strategy = "fill_mode" /\ DType(c) \in {"object", "category"}
    THEN IF Given(c) # {} THEN Val(MostFrequent(c)) ELSE Val("Unknown")
    ELSE IF strategy = "fill_median" /\ DType(c) = "number" /\ Given(c) # {}
    THEN Val(MiddleValue(c))
    ELSE NaN

WithinBounds(d, start_date, end_date) ==
    /\ start_date # "" => (d # NaN /\ V(d) >= ToDatetime(start_date))
    /\ end_date # "" => (d # NaN /\ V(d) <= ToDatetime(end_date))

\* C26: on a table that has the date column, filter_by_date_range returns exactly
\* the records of its input whose date lies between the bounds given, both
\* inclusive, in their order; all the records when no bound is given; and no
\* record with a missing date when a bound is given.
C26_FilterKeepsRecordsInRange ==
    (call.fn = "filter_by_date_range" /\ HasCol(arg, "Enrolment_Date")) =>
        /\ ~err
        /\ ret.cols = arg.cols
        /\ ret.rows = SelectSeq(arg.rows,
              LAMBDA r : WithinBounds(r["Enrolment_Date"], call.columns[1], call.columns[2]))

CleanerOperations ==
    {"create_age_groups", "create_biometric_quality_categories", "handle_missing_values",
     "standardize_categorical_columns", "remove_duplicates", "filter_by_date_range"}

\* the records of table a are records of table b, in the order they have in b
SubSequence(a, b) ==
    \E f \in [DOMAIN a.rows -> DOMAIN b.rows] :
        /\ \A i, j \in DOMAIN a.rows : i < j => f[i] < f[j]
        /\ \A i \in DOMAIN a.rows : a.rows[i]["Enrolment_ID"] = b.rows[f[i]]["Enrolment_ID"]

\* C27: a Cleaner operation returns a sub-sequence of the records it was given
\* (none added, none reordered); after any chain of them the table has at most as
\* many records as the raw table, and get_cleaning_summary reports a
\* records_removed >= 0.
C27_NeverAddsOrReordersRecords ==
    /\ (call.fn \in CleanerOperations /\ ~err) => SubSequence(ret, arg)
    /\ ~err => NRows(ret) <= NRows(pre)
    /\ call.fn = "get_cleaning_summary" =>
         /\ ~err
         /\ stats.records_removed = NRows(pre) - NRows(ret)
         /\ stats.records_removed >= 0

\* C29: filter_by_date_range and get_cleaning_summary return a result for every
\* table that has the required column, a table without records included.
C29_ReturnsOnEveryTable ==
    /\ (call.fn = "filter_by_date_range" /\ HasCol(arg, "Enrolment_Date")) => ~err
    /\ call.fn = "get_cleaning_summary" => ~err

-----------------------------------------------------------------------------
(* Properties of analyze_update_patterns_by_age (checked under SpecUpdates) *)

\* the enrolment records of group g, and the update records of an enrolment of
\* group g, in the two tables passed
EnrolmentsOf(g) ==
    {j \in DOMAIN pre.enrolment.rows : pre.enrolment.rows[j]["Age_Group"] = Val(g)}
UpdatesOf(g) ==
    {i \in DOMAIN pre.updates.rows :
        \E j \in EnrolmentsOf(g) :
            pre.enrolment.rows[j]["Enrolment_ID"] = pre.updates.rows[i]["Enrolment_ID"]}
UpdatedGroups == {g \in Range(AgeLabels) : UpdatesOf(g) # {}}

\* C23: analyze_update_patterns_by_age returns one row per age group that has at
\* least one update, and no other row; the row's Updates_per_1000 is the group's
\* updates divided by the same group's enrolments, times 1000 (to two decimals),
\* also when an age group of the enrolment table has no update.
C23_RatePerUpdatedGroup ==
    (call.fn = "analyze_update_patterns_by_age" /\ UpdatedGroups # {}) =>
        /\ ~err
        /\ {V(ret.rows[k]["Age_Group"]) : k \in DOMAIN ret.rows} = UpdatedGroups
        /\ NRows(ret) = Cardinality(UpdatedGroups)
        /\ \A k \in DOMAIN ret.rows :
             LET g == V(ret.rows[k]["Age_Group"])
             IN /\ ret.rows[k]["Total_Updates"] = Val(Cardinality(UpdatesOf(g)))
                /\ ret.rows[k]["Enrolments"] = Val(Cardinality(EnrolmentsOf(g)))
                /\ ret.rows[k]["Updates_per_1000"] =
                       Val(RoundHalfEven(Cardinality(UpdatesOf(g)) * 1000 * 100,
                                         Cardinality(EnrolmentsOf(g))))

-----------------------------------------------------------------------------
(* Properties of generate_statistical_report (checked under SpecReport) *)

\* the tests, among the three whose results were passed, that are significant
SignificantTests ==
    {t \in {"chi2_results", "anova_results", "kruskal_results"} : pre[t].is_significant}

\* C30: the report concludes 'STRONG EVIDENCE' exactly when all three tests are
\* significant; otherwise it concludes 'MIXED EVIDENCE: Some tests show
\* significance, others don't', and then at least one test is significant and at
\* least one is not.
C30_ConclusionMatchesTests ==
    call.fn = "generate_statistical_report" =>
        /\ ~err
        /\ (ret.conclusion = Strong) <=> (Cardinality(SignificantTests) = 3)
        /\ (ret.conclusion # Strong) =>
             /\ ret.conclusion = Mixed
             /\ Cardinality(SignificantTests) \in {1, 2}

=============================================================================
